---- MODULE Spec2Model ----
(***************************************************************************)
(* A model of the analysis core of app.py (NBA war room):                  *)
(*   - parse_minutes and the strict DNP check,                             *)
(*   - get_player_stats_for_games and the game-log loop of run_analysis,   *)
(*   - get_next_game_bdl,                                                  *)
(*   - compute_team_advanced_stats,                                        *)
(*   - get_team_rotation.                                                  *)
(* Each component has its own variables and its own specification; the     *)
(* variables of the other components stay at their idle values.            *)
(*                                                                         *)
(* JSON values are tagged records, so that a missing key, a JSON null, a   *)
(* number and a string stay distinct.  A string is a sequence of           *)
(* one-character strings.  Floats are exact rationals: minutes are counted *)
(* in units of 1/MinScale minute, possessions in units of 1/PossScale.     *)
(***************************************************************************)
EXTENDS Integers, Sequences, FiniteSets, TLC

VARIABLES
    \* ---- get_player_stats_for_games + game-log loop of run_analysis ----
    past_games,     \* the list of recent games (their ids), newest first
    stats_by_game,  \* dict game id -> box-score row of the player
    requests,       \* the HTTP requests issued to /stats, in order
    fetch_failed,   \* game ids whose request failed (status, timeout, parse)
    log_lines,      \* the text game log, one entry per processed game
    stats_rows,     \* the structured game-log rows
    log_pc,         \* "idle" | "fetch" | "log" | "done"
    \* ---- get_next_game_bdl ----
    ng_resp,        \* the provider's response to the /games request
    ng_result,      \* the returned game, or NoGame
    ng_pc,          \* "idle" | "call" | "done"
    \* ---- compute_team_advanced_stats ----
    adv_games,      \* the `games` argument (ids, possibly None)
    adv_nrows,      \* len(all_stats)
    per_game,       \* per game id: the team and the opponent bucket
    adv_raised,     \* an exception escaped the function
    adv_seen,       \* history: the game ids of the rows held in all_stats
    adv_result,     \* the returned metrics
    adv_pc,         \* "idle" | "start" | "fetch" | "finish" | "done"
    \* ---- get_team_rotation ----
    per_player,     \* dict player id -> totals, in insertion order
    rot_played,     \* per player, the production of the rows with minutes > 0
    rot_nrows,      \* rows of the response consumed so far
    rot_rows,       \* the returned rows, sorted and labelled
    rot_games,      \* len(past_games), returned as total_games_used
    rot_pc,         \* "idle" | "start" | "aggregate" | "done"
    \* ---- get_player_info_smart ----
    res_input,      \* user_input
    candidates,     \* the dict of candidates: its keys, in insertion order
    res_issued,     \* the queries sent to /players, in order
    res_returned,   \* the ids of the players the responses listed
    res_result,     \* the returned player, or NotFound
    res_pc,         \* "idle" | "search" | "score" | "done"
    \* ---- get_betting_game_and_odds ----
    odds_resp,      \* the odds provider's response to GET /odds
    odds_requests,  \* the requests sent to the odds provider
    odds_result,    \* the returned dict
    odds_pc,        \* "idle" | "call" | "done"
    \* ---- run_analysis ----
    run_pc,         \* the step run_analysis is at, or "stopped" | "error" | "done"
    run_calls,      \* the component calls made, in order
    run_http,       \* the provider requests sent, in order
    run_local,      \* the local variables of run_analysis
    analysis_data,  \* st.session_state.analysis_data
    messages,       \* st.session_state.messages
    run_teams,      \* history: the teams served to get_bdl_team_by_name and their scores
    \* ---- compute_team_advanced_stats: the page loop ----
    pg_total,       \* the number of rows the provider holds for the games
    pg_page,        \* page
    all_stats,      \* all_stats: the rows collected, by their rank at the provider
    pg_log,         \* history: the requests of the loop and what they brought
    pg_pc           \* "idle" | "loop" | "done"

log_vars == <<past_games, stats_by_game, requests, fetch_failed, log_lines, stats_rows, log_pc>>
ng_vars == <<ng_resp, ng_result, ng_pc>>
adv_vars == <<adv_games, adv_nrows, per_game, adv_raised, adv_seen, adv_result, adv_pc>>
rot_vars == <<per_player, rot_played, rot_nrows, rot_rows, rot_games, rot_pc>>
res_vars == <<res_input, candidates, res_issued, res_returned, res_result, res_pc>>
odds_vars == <<odds_resp, odds_requests, odds_result, odds_pc>>
run_vars == <<run_pc, run_calls, run_http, run_local, analysis_data, messages, run_teams>>
page_vars == <<pg_total, pg_page, all_stats, pg_log, pg_pc>>
vars == <<log_vars, ng_vars, adv_vars, rot_vars, res_vars, odds_vars, run_vars, page_vars>>

(***************************************************************************)
(* Bounds of the model.                                                    *)
(***************************************************************************)
MaxGames == 2       \* length of past_games, and number of distinct game ids
MaxSchedule == 2    \* games in the response to get_next_game_bdl's request
MaxDate == 2        \* distinct dates of the schedule window
MaxRows == 3        \* box-score rows received by compute_team_advanced_stats
MaxRotRows == 6     \* box-score rows received by get_team_rotation
MaxHits == 2        \* players listed by one response to a player search
MaxEvents == 2      \* events listed by the odds provider
MaxTick == 4        \* the latest commence time, in ticks
MaxServed == 201    \* rows the provider holds for the requested games

(***************************************************************************)
(* JSON values.                                                            *)
(***************************************************************************)
Absent == [t |-> "absent"]
Null == [t |-> "null"]
JInt(n) == [t |-> "int", v |-> n]
JStr(cs) == [t |-> "str", v |-> cs]

\* dict.get(key, default): the default only when the key is missing.
Get(x, default) == IF x = Absent THEN default ELSE x

\* dict.get(key): None when the key is missing.
GetNone(x) == Get(x, Null)

\* Python truthiness of a JSON value.
Truthy(x) ==
    CASE x.t = "int" -> x.v # 0
      [] x.t = "str" -> x.v # <<>>
      [] OTHER -> FALSE

Digits == <<"0", "1", "2", "3", "4", "5", "6", "7", "8", "9">>
IsDigit(c) == \E i \in 1..Len(Digits) : Digits[i] = c
DigitVal(c) == (CHOOSE i \in 1..Len(Digits) : Digits[i] = c) - 1

RECURSIVE IntToChars(_)
IntToChars(n) ==
    IF n < Len(Digits) THEN <<Digits[n + 1]>>
    ELSE IntToChars(n \div Len(Digits)) \o <<Digits[(n % Len(Digits)) + 1]>>

\* str(x)
PyStr(x) ==
    CASE x.t = "str" -> x.v
      [] x.t = "int" -> IntToChars(x.v)
      [] OTHER -> <<"N", "o", "n", "e">>

NoValue == [ok |-> FALSE]
Value(n) == [ok |-> TRUE, v |-> n]

RECURSIVE DigitsValue(_)
DigitsValue(cs) ==
    IF cs = <<>> THEN 0
    ELSE DigitsValue(SubSeq(cs, 1, Len(cs) - 1)) * Len(Digits) + DigitVal(cs[Len(cs)])

\* int(cs) for a string over digits, ":" and letters: a ValueError is NoValue.
ParseInt(cs) ==
    IF cs # <<>> /\ \A i \in 1..Len(cs) : IsDigit(cs[i])
    THEN Value(DigitsValue(cs))
    ELSE NoValue

\* s.split(":")
RECURSIVE Split(_)
Split(cs) ==
    IF \A i \in 1..Len(cs) : cs[i] # ":" THEN <<cs>>
    ELSE LET k == CHOOSE i \in 1..Len(cs) :
                      cs[i] = ":" /\ \A j \in 1..(i - 1) : cs[j] # ":"
         IN <<SubSeq(cs, 1, k - 1)>> \o Split(SubSeq(cs, k + 1, Len(cs)))

MinScale == 60

\* float(cs), in units of 1/MinScale.
ParseFloat(cs) ==
    IF ParseInt(cs).ok THEN Value(ParseInt(cs).v * MinScale) ELSE NoValue

ZeroStrings == {<<"0">>, <<"0", "0", ":", "0", "0">>, <<>>}

\* parse_minutes: the minutes of a `min` field, in units of 1/MinScale minute.
parse_minutes(min_str) ==
    IF ~Truthy(min_str) THEN 0
    ELSE LET s == PyStr(min_str) IN
         IF s \in ZeroStrings THEN 0
         ELSE IF \E i \in 1..Len(s) : s[i] = ":"
         THEN LET parts == Split(s) IN
              IF Len(parts) # 2
              THEN 0      \* the unpacking fails, m is unbound, float(m) fails
              ELSE LET m == parts[1]
                       sec == parts[2]
                   IN IF ParseInt(m).ok /\ ParseInt(sec).ok
                      THEN ParseInt(m).v * MinScale + ParseInt(sec).v
                      ELSE IF ParseFloat(m).ok THEN ParseFloat(m).v ELSE 0
         ELSE IF ParseFloat(s).ok THEN ParseFloat(s).v ELSE 0

(***************************************************************************)
(* The player's box-score rows and the per-game fetch.                     *)
(***************************************************************************)
GameIds == 1..MaxGames

\* The `min` values a row may carry.
MinValues ==
    { Absent, Null, JInt(0), JInt(38),
      JStr(<<>>), JStr(<<"0">>), JStr(<<"0", "0", ":", "0", "0">>),
      JStr(<<"0", ":", "0", "0">>), JStr(<<"3", "8">>),
      JStr(<<"3", "8", ":", "2", "1">>), JStr(<<"a", "b">>) }

\* The other fields of a row: an empty line and a line with production.
\* fg_pct is in hundredths.
LogStatLines ==
    { [pts |-> Absent, reb |-> Absent, ast |-> Absent,
       fg_pct |-> Null, fg3m |-> Absent, fg3a |-> Absent],
      [pts |-> JInt(7), reb |-> JInt(3), ast |-> JInt(1),
       fg_pct |-> JInt(50), fg3m |-> JInt(1), fg3a |-> JInt(2)] }

PlayerRow(p, m, l) ==
    [player |-> p, min |-> m, pts |-> l.pts, reb |-> l.reb, ast |-> l.ast,
     fg_pct |-> l.fg_pct, fg3m |-> l.fg3m, fg3a |-> l.fg3a]

\* The rows of the requested player.
OwnRows == { PlayerRow("player", m, l) : m \in MinValues, l \in LogStatLines }

\* A row of another player of the same game.
TeammateRow ==
    PlayerRow("teammate", JStr(<<"3", "8">>),
              [pts |-> JInt(7), reb |-> JInt(3), ast |-> JInt(1),
               fg_pct |-> JInt(50), fg3m |-> JInt(1), fg3a |-> JInt(2)])

\* A second row of the requested player, after the first one.
LaterOwnRow ==
    PlayerRow("player", JStr(<<"3", "8">>),
              [pts |-> JInt(7), reb |-> JInt(3), ast |-> JInt(1),
               fg_pct |-> JInt(50), fg3m |-> JInt(1), fg3a |-> JInt(2)])

\* What one GET /stats can bring: a failure, or a list of rows in which the
\* player's row is missing, alone, behind a teammate's, or ahead of another.
LogResponses ==
    { [kind |-> k, data |-> <<>>] : k \in {"status", "notlist", "exception"} }
    \cup { [kind |-> "ok", data |-> d] : d \in {<<>>, <<TeammateRow>>} }
    \cup { [kind |-> "ok", data |-> <<r>>] : r \in OwnRows }
    \cup { [kind |-> "ok", data |-> <<TeammateRow, r>>] : r \in OwnRows }
    \cup { [kind |-> "ok", data |-> <<r, LaterOwnRow>>] : r \in OwnRows }

\* The first row of `data` whose player.id is the requested player.
FirstRowOf(data) ==
    IF \E i \in 1..Len(data) : data[i].player = "player"
    THEN <<data[CHOOSE i \in 1..Len(data) :
                    /\ data[i].player = "player"
                    /\ \A j \in 1..(i - 1) : data[j].player # "player"]>>
    ELSE <<>>

\* The request of one loop iteration: params game_ids[] = str(gid), per_page.
GameRequest(gid) == [game_ids |-> <<gid>>, player_id |-> FALSE]

\* The loop of get_player_stats_for_games has fetched the first Len(requests)
\* games; an empty game list returns at once.
FetchDone == Len(requests) = Len(past_games)

\* One iteration of `for gid in game_ids`.
FetchGame(resp) ==
    /\ log_pc = "fetch"
    /\ ~FetchDone
    /\ LET gid == past_games[Len(requests) + 1]
           found == IF resp.kind = "ok" THEN FirstRowOf(resp.data) ELSE <<>>
       IN /\ requests' = Append(requests, GameRequest(gid))
          /\ fetch_failed' = IF resp.kind = "ok" THEN fetch_failed
                             ELSE fetch_failed \cup {gid}
          /\ stats_by_game' =
                IF found = <<>> THEN stats_by_game
                ELSE [g \in DOMAIN stats_by_game \cup {gid} |->
                        IF g = gid THEN found[1] ELSE stats_by_game[g]]
    /\ UNCHANGED <<past_games, log_lines, stats_rows, log_pc>>
    /\ UNCHANGED <<ng_vars, adv_vars, rot_vars, res_vars, odds_vars, run_vars, page_vars>>

\* get_player_stats_for_games returns stats_by_game.
FetchReturn ==
    /\ log_pc = "fetch"
    /\ FetchDone
    /\ log_pc' = "log"
    /\ UNCHANGED <<past_games, stats_by_game, requests, fetch_failed, log_lines, stats_rows>>
    /\ UNCHANGED <<ng_vars, adv_vars, rot_vars, res_vars, odds_vars, run_vars, page_vars>>

(***************************************************************************)
(* The game-log loop of run_analysis.                                      *)
(***************************************************************************)
DNPMarker == "DNP (Did Not Play)"

\* stats_by_game.get(gid): <<row>> or <<>> for None.
StatOf(sbg, gid) == IF gid \in DOMAIN sbg THEN <<sbg[gid]>> ELSE <<>>

\* min_val_raw = stat.get("min") if stat else None
MinValRaw(stat) == IF stat = <<>> THEN Null ELSE GetNone(stat[1].min)

played_wrong(min_val_raw) == Truthy(min_val_raw)

\* STRICT DNP CHECK
played(min_val_raw) ==
    Truthy(min_val_raw) /\ PyStr(min_val_raw) \notin ZeroStrings

Token(k, v) == [k |-> k, v |-> v]
Marker(text) == [t |-> "text", v |-> text]
Ratio(m, a) == [t |-> "ratio", m |-> m, a |-> a]

\* fg = f"{fg_pct * 100:.0f}%" if fg_pct else "0%": the percent shown.
FgShown(row) == IF Truthy(GetNone(row.fg_pct)) THEN row.fg_pct.v ELSE 0

LineBody_wrong(stat, min_val_raw) ==
    IF stat # <<>>
    THEN <<Token("MIN", min_val_raw), Token("PTS", Get(stat[1].pts, JInt(0)))>>
    ELSE <<Token("DNP", Marker(DNPMarker))>>

\* The body of a log line: the played fields, or the DNP marker.
LineBody(stat, min_val_raw) ==
    IF played(min_val_raw)
    THEN <<Token("MIN", min_val_raw),
           Token("PTS", Get(stat[1].pts, JInt(0))),
           Token("REB", Get(stat[1].reb, JInt(0))),
           Token("AST", Get(stat[1].ast, JInt(0))),
           Token("FG", JInt(FgShown(stat[1]))),
           Token("3PT", Ratio(Get(stat[1].fg3m, JInt(0)), Get(stat[1].fg3a, JInt(0))))>>
    ELSE <<Token("DNP", Marker(DNPMarker))>>

StatsRow_wrong(gid, stat, min_val_raw) ==
    [Date |-> gid,
     MIN |-> parse_minutes(min_val_raw),
     PTS |-> IF stat # <<>> THEN Get(stat[1].pts, JInt(0)) ELSE JInt(0),
     REB |-> IF stat # <<>> THEN Get(stat[1].reb, JInt(0)) ELSE JInt(0),
     AST |-> IF stat # <<>> THEN Get(stat[1].ast, JInt(0)) ELSE JInt(0),
     FG3M |-> IF stat # <<>> THEN Get(stat[1].fg3m, JInt(0)) ELSE JInt(0),
     FG3A |-> IF stat # <<>> THEN Get(stat[1].fg3a, JInt(0)) ELSE JInt(0),
     Is_DNP |-> stat = <<>>]

\* The structured row of the game: MIN is 0 unless the game counts as played.
StatsRow(gid, stat, min_val_raw) ==
    [Date |-> gid,
     MIN |-> IF played(min_val_raw) THEN parse_minutes(min_val_raw) ELSE 0,
     PTS |-> IF stat # <<>> THEN Get(stat[1].pts, JInt(0)) ELSE JInt(0),
     REB |-> IF stat # <<>> THEN Get(stat[1].reb, JInt(0)) ELSE JInt(0),
     AST |-> IF stat # <<>> THEN Get(stat[1].ast, JInt(0)) ELSE JInt(0),
     FG3M |-> IF stat # <<>> THEN Get(stat[1].fg3m, JInt(0)) ELSE JInt(0),
     FG3A |-> IF stat # <<>> THEN Get(stat[1].fg3a, JInt(0)) ELSE JInt(0),
     Is_DNP |-> ~played(min_val_raw)]

\* One iteration of `for g in past_games`.
LogGame ==
    /\ log_pc = "log"
    /\ Len(log_lines) < Len(past_games)
    /\ LET gid == past_games[Len(log_lines) + 1]
           stat == StatOf(stats_by_game, gid)
           raw == MinValRaw(stat)
       IN /\ log_lines' = Append(log_lines, [d |-> gid, body |-> LineBody(stat, raw)])
          /\ stats_rows' = Append(stats_rows, StatsRow(gid, stat, raw))
    /\ UNCHANGED <<past_games, stats_by_game, requests, fetch_failed, log_pc>>
    /\ UNCHANGED <<ng_vars, adv_vars, rot_vars, res_vars, odds_vars, run_vars, page_vars>>

\* final_log = "\n".join(log_lines): the loop is over.
LogJoin ==
    /\ log_pc = "log"
    /\ Len(log_lines) = Len(past_games)
    /\ log_pc' = "done"
    /\ UNCHANGED <<past_games, stats_by_game, requests, fetch_failed, log_lines, stats_rows>>
    /\ UNCHANGED <<ng_vars, adv_vars, rot_vars, res_vars, odds_vars, run_vars, page_vars>>

(***************************************************************************)
(* get_next_game_bdl.                                                      *)
(***************************************************************************)
\* Dates are day numbers: ISO date strings compare as their days do.
Dates == 1..MaxDate

\* The team of the request, and two other teams.
Teams == {"team", "teamA", "teamB"}

\* "Final", a scheduled game (its status is the tip-off time) and a live game.
GameStatuses == {"Final", "7:00 pm ET", "1st Qtr"}

\* The games of a response: home and visitor differ, ids are positions.
ScheduleGames ==
    { g \in [date : Dates, status : GameStatuses, home : Teams, visitor : Teams] :
        g.home # g.visitor }

NgResponses ==
    { [status |-> k, data |-> <<>>] : k \in {"non200", "exception"} }
    \cup { [status |-> "ok", data |-> [i \in 1..k |->
                [id |-> i, date |-> gs[i].date, status |-> gs[i].status,
                 home |-> gs[i].home, visitor |-> gs[i].visitor]]] :
            k \in 0..MaxSchedule, gs \in [1..MaxSchedule -> ScheduleGames] }

SortByDate_wrong(data) == data

\* list.sort(key=lambda x: x["date"]): stable, ascending.
RECURSIVE SortByDate(_)
SortByDate(data) ==
    IF Len(data) <= 1 THEN data
    ELSE LET k == CHOOSE i \in 1..Len(data) :
                      /\ \A j \in 1..Len(data) : data[i].date <= data[j].date
                      /\ \A j \in 1..(i - 1) : data[j].date # data[i].date
         IN <<data[k]>> \o SortByDate(SubSeq(data, 1, k - 1) \o SubSeq(data, k + 1, Len(data)))

NoGame == [found |-> FALSE]

\* The tuple returned for game g.
GameTuple(g) ==
    LET at_home == g.home = "team"
        opp == IF at_home THEN g.visitor ELSE g.home
    IN [found |-> TRUE, loc |-> IF at_home THEN "vs" ELSE "@",
        opp |-> opp, date |-> g.date, game_id |-> g.id]

get_next_game_bdl_wrong(resp) ==
    IF resp.status # "ok" \/ resp.data = <<>> THEN NoGame
    ELSE GameTuple(SortByDate(resp.data)[1])

\* get_next_game_bdl, from the response to the returned tuple.
get_next_game_bdl(resp) ==
    IF resp.status # "ok" THEN NoGame
    ELSE IF resp.data = <<>> THEN NoGame
    ELSE LET data == SortByDate(resp.data) IN
         IF \A i \in 1..Len(data) : data[i].status = "Final" THEN NoGame
         ELSE GameTuple(data[CHOOSE i \in 1..Len(data) :
                               /\ data[i].status # "Final"
                               /\ \A j \in 1..(i - 1) : data[j].status = "Final"])

NextGameCall ==
    /\ ng_pc = "call"
    /\ ng_result' = get_next_game_bdl(ng_resp)
    /\ ng_pc' = "done"
    /\ UNCHANGED ng_resp
    /\ UNCHANGED <<log_vars, adv_vars, rot_vars, res_vars, odds_vars, run_vars, page_vars>>

(***************************************************************************)
(* compute_team_advanced_stats.                                            *)
(***************************************************************************)
\* An exact rational n/d.  Possessions are kept in units of 1/PossScale.
Frac(n, d) == [n |-> n, d |-> d]
Zero == Frac(0, 1)
PossScale == 100
FtWeight == 44
RatingScale == 100

\* a / b if b > 0 else 0.0
Guarded(a, b) == IF b > 0 THEN Frac(a, b) ELSE Zero

StatFields == {"pts", "fgm", "fga", "fg3m", "fg3a", "ftm", "fta", "oreb", "dreb", "reb", "turnover"}

StatLine(pts, fgm, fga, fg3m, fg3a, ftm, fta, oreb, dreb, tov) ==
    [pts |-> JInt(pts), fgm |-> JInt(fgm), fga |-> JInt(fga), fg3m |-> JInt(fg3m),
     fg3a |-> JInt(fg3a), ftm |-> JInt(ftm), fta |-> JInt(fta), oreb |-> JInt(oreb),
     dreb |-> JInt(dreb), reb |-> JInt(oreb + dreb), turnover |-> JInt(tov)]

\* The box-score lines a row may carry: a scorer, a player living at the
\* line, a rebounder who never shot, a line whose makes exceed its attempts
\* in every category, a line whose keys are all missing (a player without
\* a stat) and a line with a null field.
AdvStatLines ==
    { StatLine(12, 5, 9, 2, 4, 0, 0, 1, 3, 2),
      StatLine(3, 1, 2, 0, 0, 1, 2, 0, 1, 0),
      StatLine(0, 0, 0, 0, 0, 0, 0, 3, 2, 1),
      StatLine(8, 3, 2, 4, 1, 2, 1, 0, 0, 0),
      [f \in StatFields |-> Absent],
      [StatLine(0, 0, 0, 0, 0, 0, 0, 0, 0, 0) EXCEPT !.pts = Null] }

\* A row of the response: its game id, the side its team id puts it on, and
\* its line; or a row whose game id is missing, skipped whatever it holds.
AdvRows ==
    { [game |-> JInt(i), side |-> sd, line |-> l] :
        i \in GameIds, sd \in {"team", "opp"}, l \in AdvStatLines }
    \cup { [game |-> Null, side |-> "team", line |-> StatLine(12, 5, 9, 2, 4, 0, 0, 1, 3, 2)] }

\* The `games` argument: the window's games in list order, possibly led by
\* a game without an id.
AdvGameLists ==
    { [i \in 1..k |-> JInt(i)] : k \in 0..MaxGames }
    \cup { <<Null>> \o [i \in 1..k |-> JInt(i)] : k \in 0..(MaxGames - 1) }

\* game_ids = [g.get("id") for g in games if g.get("id") is not None]
RECURSIVE GameIdsOf(_)
GameIdsOf(games) ==
    IF games = <<>> THEN <<>>
    ELSE IF games[1] = Null THEN GameIdsOf(Tail(games))
    ELSE <<games[1].v>> \o GameIdsOf(Tail(games))

Requested(gid) == \E i \in 1..Len(GameIdsOf(adv_games)) : GameIdsOf(adv_games)[i] = gid

EmptyBucket == [f \in StatFields |-> 0]

\* The fields in the order the loop body adds them.
FieldOrder == <<"pts", "fgm", "fga", "fg3m", "fg3a", "ftm", "fta", "oreb", "dreb", "reb", "turnover">>
FieldPos(f) == CHOOSE i \in 1..Len(FieldOrder) : FieldOrder[i] = f

\* bucket[f] += s.get(f, 0), field after field: a null raises TypeError, and
\* the fields before it have been added.
LineRaises(line) == \E f \in StatFields : line[f] = Null
AddLine(bucket, line) ==
    [f \in StatFields |->
        IF \E h \in StatFields : FieldPos(h) <= FieldPos(f) /\ line[h] = Null
        THEN bucket[f]
        ELSE bucket[f] + Get(line[f], JInt(0)).v]

empty ==
    [games_used |-> 0, off_rtg |-> Zero, def_rtg |-> Zero, net_rtg |-> Zero,
     pace |-> Zero, fg_pct |-> Zero, two_pct |-> Zero, three_pct |-> Zero,
     three_pa_rate |-> Zero, ft_pct |-> Zero, ftr |-> Zero, orb_pct |-> Zero,
     drb_pct |-> Zero, reb_pg |-> Zero, tov_pg |-> Zero, tov_pct |-> Zero]

NoResult == [games_used |-> 0, none |-> TRUE]

Poss_wrong(b) == PossScale * (b.fga - b.oreb + b.turnover + b.fta)

\* team_poss = fga - oreb + tov + 0.44 * fta, in units of 1/PossScale.
Poss(b) == PossScale * (b.fga - b.oreb + b.turnover) + FtWeight * b.fta

\* The games the accumulation loop counts: those of game_ids with a record.
RECURSIVE UsedGames(_, _)
UsedGames(game_ids, pg) ==
    IF game_ids = <<>> THEN <<>>
    ELSE IF game_ids[1] \in DOMAIN pg
         THEN <<game_ids[1]>> \o UsedGames(Tail(game_ids), pg)
         ELSE UsedGames(Tail(game_ids), pg)

RECURSIVE TotField(_, _, _, _)
TotField(used, pg, side, f) ==
    IF used = <<>> THEN 0
    ELSE pg[used[1]][side][f] + TotField(Tail(used), pg, side, f)

RECURSIVE TotPoss(_, _, _)
TotPoss(used, pg, side) ==
    IF used = <<>> THEN 0
    ELSE Poss(pg[used[1]][side]) + TotPoss(Tail(used), pg, side)

RebPct_wrong(own, other) == Guarded(own, other)

\* orb_pct = tot_oreb / (tot_oreb + tot_opp_dreb), and drb_pct likewise.
RebPct(own, other) == Guarded(own, own + other)

\* The rates derived from the totals of the used games.
Rates(used, pg) ==
    LET games_used == Len(used)
        T(f) == TotField(used, pg, "team", f)
        O(f) == TotField(used, pg, "opp", f)
        tot_team_poss == TotPoss(used, pg, "team")
        tot_opp_poss == TotPoss(used, pg, "opp")
    IN [games_used |-> games_used,
        off_rtg |-> Frac(RatingScale * PossScale * T("pts"), tot_team_poss),
        def_rtg |-> Frac(RatingScale * PossScale * O("pts"), tot_team_poss),
        net_rtg |-> Frac(RatingScale * PossScale * (T("pts") - O("pts")), tot_team_poss),
        pace |-> Frac(tot_team_poss + tot_opp_poss, PossScale * 2 * games_used),
        fg_pct |-> Guarded(T("fgm"), T("fga")),
        two_pct |-> Guarded(T("fgm") - T("fg3m"), T("fga") - T("fg3a")),
        three_pct |-> Guarded(T("fg3m"), T("fg3a")),
        three_pa_rate |-> Guarded(T("fg3a"), T("fga")),
        ft_pct |-> Guarded(T("ftm"), T("fta")),
        ftr |-> Guarded(T("fta"), T("fga")),
        orb_pct |-> RebPct(T("oreb"), O("dreb")),
        drb_pct |-> RebPct(T("dreb"), O("oreb")),
        reb_pg |-> Frac(T("reb"), games_used),
        tov_pg |-> Frac(T("turnover"), games_used),
        tov_pct |-> Guarded(PossScale * T("turnover"), tot_team_poss)]

Derive_wrong(game_ids, pg) ==
    IF UsedGames(game_ids, pg) = <<>> THEN empty
    ELSE Rates(UsedGames(game_ids, pg), pg)

\* The accumulation over game_ids, the guard and the derived rates.
Derive(game_ids, pg) ==
    IF UsedGames(game_ids, pg) = <<>> \/ TotPoss(UsedGames(game_ids, pg), pg, "team") <= 0
    THEN empty
    ELSE Rates(UsedGames(game_ids, pg), pg)

\* `if not games: return empty` and `if not game_ids: return empty`.
AdvStart ==
    /\ adv_pc = "start"
    /\ IF GameIdsOf(adv_games) = <<>>
       THEN adv_result' = empty /\ adv_pc' = "done"
       ELSE adv_result' = adv_result /\ adv_pc' = "fetch"
    /\ UNCHANGED <<adv_games, adv_nrows, per_game, adv_raised, adv_seen>>
    /\ UNCHANGED <<log_vars, ng_vars, rot_vars, res_vars, odds_vars, run_vars, page_vars>>

AdvRow_wrong(s) ==
    /\ adv_pc = "fetch"
    /\ adv_nrows < MaxRows
    /\ adv_nrows' = adv_nrows + 1
    /\ adv_seen' = IF s.game = Null THEN adv_seen ELSE adv_seen \cup {s.game.v}
    /\ IF s.game = Null \/ adv_raised
       THEN UNCHANGED <<per_game, adv_raised>>
       ELSE LET gid == s.game.v
                rec == IF gid \in DOMAIN per_game THEN per_game[gid]
                       ELSE [team |-> EmptyBucket, opp |-> EmptyBucket]
            IN /\ adv_raised' = LineRaises(s.line)
               /\ per_game' =
                    [g \in DOMAIN per_game \cup {gid} |->
                       IF g = gid
                       THEN [rec EXCEPT ![s.side] = AddLine(rec[s.side], s.line)]
                       ELSE per_game[g]]
    /\ UNCHANGED <<adv_games, adv_result, adv_pc>>
    /\ UNCHANGED <<log_vars, ng_vars, rot_vars, res_vars, odds_vars, run_vars, page_vars>>

\* One more row s of all_stats, and the body of `for s in all_stats` for it.
\* The rows are aggregated as they arrive: adv_raised records that the
\* aggregation loop raises on one of the rows received so far, per_game
\* being then what the loop had built when it raised.
AdvRow(s) ==
    /\ adv_pc = "fetch"
    /\ adv_nrows < MaxRows
    /\ adv_nrows' = adv_nrows + 1
    /\ adv_seen' = IF s.game = Null THEN adv_seen ELSE adv_seen \cup {s.game.v}
    /\ IF s.game = Null \/ ~Requested(s.game.v) \/ adv_raised
       THEN UNCHANGED <<per_game, adv_raised>>
       ELSE LET gid == s.game.v
                rec == IF gid \in DOMAIN per_game THEN per_game[gid]
                       ELSE [team |-> EmptyBucket, opp |-> EmptyBucket]
            IN /\ adv_raised' = LineRaises(s.line)
               /\ per_game' =
                    [g \in DOMAIN per_game \cup {gid} |->
                       IF g = gid
                       THEN [rec EXCEPT ![s.side] = AddLine(rec[s.side], s.line)]
                       ELSE per_game[g]]
    /\ UNCHANGED <<adv_games, adv_result, adv_pc>>
    /\ UNCHANGED <<log_vars, ng_vars, rot_vars, res_vars, odds_vars, run_vars, page_vars>>

\* The page loop breaks (non-success status, empty or short page): the
\* function goes on with the rows it has.
AdvFetchBreak ==
    /\ adv_pc = "fetch"
    /\ adv_pc' = "done"
    /\ IF adv_nrows = 0
       THEN adv_result' = empty /\ UNCHANGED adv_raised
       ELSE IF adv_raised
            THEN adv_result' = NoResult /\ UNCHANGED adv_raised
            ELSE adv_result' = Derive(GameIdsOf(adv_games), per_game) /\ UNCHANGED adv_raised
    /\ UNCHANGED <<adv_games, adv_nrows, per_game, adv_seen>>
    /\ UNCHANGED <<log_vars, ng_vars, rot_vars, res_vars, odds_vars, run_vars, page_vars>>

\* A request of the page loop raises (timeout, bad JSON): all_stats = [].
AdvFetchException_wrong ==
    /\ adv_pc = "fetch"
    /\ adv_pc' = "done"
    /\ adv_nrows' = 0
    /\ per_game' = <<>>
    /\ adv_raised' = TRUE
    /\ adv_seen' = {}
    /\ adv_result' = NoResult
    /\ UNCHANGED adv_games
    /\ UNCHANGED <<log_vars, ng_vars, rot_vars, res_vars, odds_vars, run_vars, page_vars>>

AdvFetchException ==
    /\ adv_pc = "fetch"
    /\ adv_pc' = "done"
    /\ adv_nrows' = 0
    /\ per_game' = <<>>
    /\ adv_raised' = FALSE
    /\ adv_seen' = {}
    /\ adv_result' = empty
    /\ UNCHANGED adv_games
    /\ UNCHANGED <<log_vars, ng_vars, rot_vars, res_vars, odds_vars, run_vars, page_vars>>

(***************************************************************************)
(* compute_team_advanced_stats: the page loop.  The rows of the requested  *)
(* games are numbered by their rank at the provider, which serves them in  *)
(* pages of per_page rows: page p holds the ranks (p-1)*per_page + 1 to    *)
(* p*per_page that exist.                                                  *)
(***************************************************************************)
PerPage == 100

ServedPage(total, p) ==
    LET first == (p - 1) * PerPage
        k == IF total - first >= PerPage THEN PerPage
             ELSE IF total - first > 0 THEN total - first ELSE 0
    IN [i \in 1..k |-> first + i]

PageServed_wrong ==
    /\ pg_pc = "loop"
    /\ LET batch == ServedPage(pg_total, pg_page) IN
          /\ pg_log' = Append(pg_log, [page |-> pg_page, kind |-> "ok", size |-> Len(batch)])
          /\ IF Len(batch) < PerPage
             THEN UNCHANGED <<all_stats, pg_page>> /\ pg_pc' = "done"
             ELSE /\ all_stats' = all_stats \o batch
                  /\ pg_page' = pg_page + 1 /\ pg_pc' = "loop"
    /\ UNCHANGED pg_total
    /\ UNCHANGED <<log_vars, ng_vars, adv_vars, rot_vars, res_vars, odds_vars, run_vars>>

\* One iteration of `while True` whose request is answered with status 200:
\* break on an empty batch, extend all_stats, break on a short batch,
\* else page += 1.
PageServed ==
    /\ pg_pc = "loop"
    /\ LET batch == ServedPage(pg_total, pg_page) IN
          /\ pg_log' = Append(pg_log, [page |-> pg_page, kind |-> "ok", size |-> Len(batch)])
          /\ IF batch = <<>>
             THEN UNCHANGED <<all_stats, pg_page>> /\ pg_pc' = "done"
             ELSE /\ all_stats' = all_stats \o batch
                  /\ IF Len(batch) < PerPage
                     THEN UNCHANGED pg_page /\ pg_pc' = "done"
                     ELSE pg_page' = pg_page + 1 /\ pg_pc' = "loop"
    /\ UNCHANGED pg_total
    /\ UNCHANGED <<log_vars, ng_vars, adv_vars, rot_vars, res_vars, odds_vars, run_vars>>

\* An iteration whose request is answered with another status: break.
PageStatus ==
    /\ pg_pc = "loop"
    /\ pg_log' = Append(pg_log, [page |-> pg_page, kind |-> "status", size |-> 0])
    /\ pg_pc' = "done"
    /\ UNCHANGED <<pg_total, pg_page, all_stats>>
    /\ UNCHANGED <<log_vars, ng_vars, adv_vars, rot_vars, res_vars, odds_vars, run_vars>>

\* An iteration whose request raises (timeout, bad JSON): all_stats = [].
PageException ==
    /\ pg_pc = "loop"
    /\ pg_log' = Append(pg_log, [page |-> pg_page, kind |-> "exception", size |-> 0])
    /\ all_stats' = <<>>
    /\ pg_pc' = "done"
    /\ UNCHANGED <<pg_total, pg_page>>
    /\ UNCHANGED <<log_vars, ng_vars, adv_vars, rot_vars, res_vars, odds_vars, run_vars>>

(***************************************************************************)
(* get_team_rotation.                                                      *)
(***************************************************************************)
StarterCount == 5
RoundDigits == 10

\* The `min` values of the rotation rows: a DNP, a missing key, whole
\* minutes and minutes with seconds.
RotMinValues ==
    { JStr(<<"0", "0", ":", "0", "0">>), Absent,
      JStr(<<"2", "4">>), JStr(<<"3", "0", ":", "3", "0">>) }

\* The production every row carries, also the row of a player who sat out
\* (the feed may repeat stale numbers).
RotLine == [pts |-> JInt(7), reb |-> JInt(3), ast |-> JInt(1), fg3m |-> JInt(1)]

\* A row of the response.  Player ids are labels, so the players are
\* numbered in the order in which the response first lists them; a row may
\* also lack its player id or belong to the other team.
RotRowsAfter(pp) ==
    { [team |-> "team", pid |-> JInt(i), min |-> m, line |-> RotLine] :
        i \in 1..(Len(pp) + 1), m \in RotMinValues }
    \cup { [team |-> "team", pid |-> Null, min |-> JStr(<<"2", "4">>), line |-> RotLine],
           [team |-> "other", pid |-> JInt(1), min |-> JStr(<<"2", "4">>), line |-> RotLine] }

NewTotals(pid) ==
    [pid |-> pid, total_min |-> 0, gp_non_dnp |-> 0,
     total_pts |-> 0, total_reb |-> 0, total_ast |-> 0, total_3pm |-> 0]

\* The body of `for s in stats` for a row of the team with a player id.
AddRow(agg, s) ==
    LET min_val == parse_minutes(GetNone(s.min)) IN
    [agg EXCEPT !.total_min = @ + min_val,
                !.total_pts = @ + Get(s.line.pts, JInt(0)).v,
                !.total_reb = @ + Get(s.line.reb, JInt(0)).v,
                !.total_ast = @ + Get(s.line.ast, JInt(0)).v,
                !.total_3pm = @ + Get(s.line.fg3m, JInt(0)).v,
                !.gp_non_dnp = IF min_val > 0 THEN @ + 1 ELSE @]

\* What the rows in which the player recorded minutes > 0 add up to: kept
\* beside per_player to compare the reported averages with.
NoProduction == [pts |-> 0, reb |-> 0, ast |-> 0, fg3m |-> 0]
AddPlayed(prod, s) ==
    IF parse_minutes(GetNone(s.min)) > 0
    THEN [f \in DOMAIN prod |-> prod[f] + Get(s.line[f], JInt(0)).v]
    ELSE prod

\* round(n / d, 1) in tenths, for n >= 0 and d > 0: to the nearest tenth, a
\* tie to the even one (the ties of the model are quarters, exact in binary).
Round1(n, d) ==
    LET q == (RoundDigits * n) \div d
        r == (RoundDigits * n) % d
    IN IF 2 * r < d THEN q
       ELSE IF 2 * r > d THEN q + 1
       ELSE IF q % 2 = 0 THEN q ELSE q + 1

\* The row built for one player: averages over gp = gp_non_dnp or 1.
RotationRow(agg) ==
    LET gp == IF agg.gp_non_dnp # 0 THEN agg.gp_non_dnp ELSE 1 IN
    [pid |-> agg.pid,
     gp_non_dnp |-> agg.gp_non_dnp,
     avg_min |-> Round1(agg.total_min, MinScale * gp),
     avg_pts |-> Round1(agg.total_pts, gp),
     avg_reb |-> Round1(agg.total_reb, gp),
     avg_ast |-> Round1(agg.total_ast, gp),
     avg_3pm |-> Round1(agg.total_3pm, gp)]

SortByAvgMin_wrong(rows) == rows

\* rows.sort(key=lambda r: r["Avg MIN"], reverse=True): stable, descending.
RECURSIVE SortByAvgMin(_)
SortByAvgMin(rows) ==
    IF Len(rows) <= 1 THEN rows
    ELSE LET k == CHOOSE i \in 1..Len(rows) :
                      /\ \A j \in 1..Len(rows) : rows[i].avg_min >= rows[j].avg_min
                      /\ \A j \in 1..(i - 1) : rows[j].avg_min # rows[i].avg_min
         IN <<rows[k]>> \o SortByAvgMin(SubSeq(rows, 1, k - 1) \o SubSeq(rows, k + 1, Len(rows)))

\* r["Role"] = "Starter" if idx < 5 else "Bench/Rotation"
WithRoles(rows) ==
    [i \in 1..Len(rows) |->
        [row |-> rows[i],
         Role |-> IF i - 1 < StarterCount THEN "Starter" ELSE "Bench/Rotation"]]

\* get_team_schedule_before_today returned no game: return [], 0.
RotNoGames ==
    /\ rot_pc = "start"
    /\ rot_games = 0
    /\ rot_rows' = <<>>
    /\ rot_pc' = "done"
    /\ UNCHANGED <<per_player, rot_played, rot_nrows, rot_games>>
    /\ UNCHANGED <<log_vars, ng_vars, adv_vars, res_vars, odds_vars, run_vars, page_vars>>

\* The request for the box scores fails (status, timeout, bad JSON):
\* return [], total_games_used.
RotFetchFail ==
    /\ rot_pc = "start"
    /\ rot_games > 0
    /\ rot_rows' = <<>>
    /\ rot_pc' = "done"
    /\ UNCHANGED <<per_player, rot_played, rot_nrows, rot_games>>
    /\ UNCHANGED <<log_vars, ng_vars, adv_vars, res_vars, odds_vars, run_vars, page_vars>>

\* The request for the box scores succeeds.
RotFetchOk ==
    /\ rot_pc = "start"
    /\ rot_games > 0
    /\ rot_pc' = "aggregate"
    /\ UNCHANGED <<per_player, rot_played, rot_nrows, rot_rows, rot_games>>
    /\ UNCHANGED <<log_vars, ng_vars, adv_vars, res_vars, odds_vars, run_vars, page_vars>>

\* One iteration of `for s in stats`.
RotRow(s) ==
    /\ rot_pc = "aggregate"
    /\ rot_nrows < MaxRotRows
    /\ rot_nrows' = rot_nrows + 1
    /\ IF s.team # "team" \/ ~Truthy(s.pid)
       THEN UNCHANGED <<per_player, rot_played>>
       ELSE IF \E i \in 1..Len(per_player) : per_player[i].pid = s.pid.v
            THEN /\ per_player' =
                    [i \in 1..Len(per_player) |->
                        IF per_player[i].pid = s.pid.v
                        THEN AddRow(per_player[i], s) ELSE per_player[i]]
                 /\ rot_played' =
                    [i \in 1..Len(per_player) |->
                        IF per_player[i].pid = s.pid.v
                        THEN AddPlayed(rot_played[i], s) ELSE rot_played[i]]
            ELSE /\ per_player' = Append(per_player, AddRow(NewTotals(s.pid.v), s))
                 /\ rot_played' = Append(rot_played, AddPlayed(NoProduction, s))
    /\ UNCHANGED <<rot_rows, rot_pc, rot_games>>
    /\ UNCHANGED <<log_vars, ng_vars, adv_vars, res_vars, odds_vars, run_vars, page_vars>>

\* The end of the response: build the rows, sort them, label them.
RotFinish ==
    /\ rot_pc = "aggregate"
    /\ rot_rows' =
          IF per_player = <<>> THEN <<>>
          ELSE WithRoles(SortByAvgMin([i \in 1..Len(per_player) |-> RotationRow(per_player[i])]))
    /\ rot_pc' = "done"
    /\ UNCHANGED <<per_player, rot_played, rot_nrows, rot_games>>
    /\ UNCHANGED <<log_vars, ng_vars, adv_vars, res_vars, odds_vars, run_vars, page_vars>>

(***************************************************************************)
(* get_player_info_smart.                                                  *)
(***************************************************************************)
Uppers == <<"A", "B", "C", "D", "E", "F", "G", "H", "I", "J", "K", "L", "M", "N", "O", "P", "Q", "R", "S", "T", "U", "V", "W", "X", "Y", "Z">>
Lowers == <<"a", "b", "c", "d", "e", "f", "g", "h", "i", "j", "k", "l", "m", "n", "o", "p", "q", "r", "s", "t", "u", "v", "w", "x", "y", "z">>

LowerChar(c) ==
    IF \E i \in 1..Len(Uppers) : Uppers[i] = c
    THEN Lowers[CHOOSE i \in 1..Len(Uppers) : Uppers[i] = c]
    ELSE c

\* s.lower()
Lower(s) == [i \in 1..Len(s) |-> LowerChar(s[i])]

\* s[i-1:].startswith(sub), and `sub in s`
OccursAt(sub, s, i) ==
    i + Len(sub) - 1 <= Len(s) /\ SubSeq(s, i, i + Len(sub) - 1) = sub
Contains(sub, s) == \E i \in 1..(Len(s) + 1) : OccursAt(sub, s, i)

\* s.replace(old, "") for a non-empty old: every occurrence, left to right.
RECURSIVE Remove(_, _)
Remove(s, old) ==
    IF s = <<>> THEN <<>>
    ELSE IF OccursAt(old, s, 1) THEN Remove(SubSeq(s, Len(old) + 1, Len(s)), old)
    ELSE <<s[1]>> \o Remove(Tail(s), old)

\* s.strip()
RECURSIVE Strip(_)
Strip(s) ==
    IF s = <<>> THEN s
    ELSE IF s[1] = " " THEN Strip(Tail(s))
    ELSE IF s[Len(s)] = " " THEN Strip(SubSeq(s, 1, Len(s) - 1))
    ELSE s

\* s.split(): the words between runs of spaces.
RECURSIVE Words(_)
Words(s) ==
    LET t == Strip(s) IN
    IF t = <<>> THEN <<>>
    ELSE IF \A i \in 1..Len(t) : t[i] # " " THEN <<t>>
    ELSE LET k == CHOOSE i \in 1..Len(t) :
                      t[i] = " " /\ \A j \in 1..(i - 1) : t[j] # " "
         IN <<SubSeq(t, 1, k - 1)>> \o Words(SubSeq(t, k + 1, Len(t)))

\* " ".join(ws)
RECURSIVE Join(_)
Join(ws) ==
    IF ws = <<>> THEN <<>>
    ELSE IF Len(ws) = 1 THEN ws[1]
    ELSE ws[1] \o <<" ">> \o Join(Tail(ws))

\* ws[::-1]
Reverse(ws) == [i \in 1..Len(ws) |-> ws[Len(ws) + 1 - i]]

\* The team identifiers stripped from the input, in the order of the loop.
Ignored ==
    << <<" ", "h", "o", "r", "n", "e", "t", "s">>,
       <<" ", "c", "h", "a">>,
       <<" ", "c", "h", "a", "r", "l", "o", "t", "t", "e">>,
       <<" ", "s", "u", "n", "s">>,
       <<" ", "p", "h", "x">>,
       <<" ", "l", "a", "k", "e", "r", "s">>,
       <<" ", "l", "a", "l">> >>

RECURSIVE RemoveAll(_, _)
RemoveAll(s, olds) ==
    IF olds = <<>> THEN s ELSE RemoveAll(Remove(s, olds[1]), Tail(olds))

\* clean_input
CleanInput(user_input) == Strip(RemoveAll(Lower(user_input), Ignored))

\* queries: the cleaned string, its words in reverse order, each word.
Queries(clean_input) ==
    <<clean_input>>
    \o (IF Contains(<<" ">>, clean_input)
        THEN <<Join(Reverse(Words(clean_input)))>> ELSE <<>>)
    \o (IF Len(Words(clean_input)) > 1 THEN Words(clean_input) ELSE <<>>)

MinQueryLen == 3

\* The queries the loop does not skip: `if len(q) < 3: continue`.
RECURSIVE Searched(_)
Searched(queries) ==
    IF queries = <<>> THEN <<>>
    ELSE IF Len(queries[1]) < MinQueryLen THEN Searched(Tail(queries))
    ELSE <<queries[1]>> \o Searched(Tail(queries))

\* The players the provider knows.  A player's record is the same in every
\* response, so the dict `candidates` is kept as the list of its keys.
PlayerDB ==
    << [id |-> 1, first_name |-> <<"L", "u", "k", "a">>, last_name |-> <<"D", "o", "n", "c", "i", "c">>,
        team |-> [full_name |-> <<"D", "a", "l", "l", "a", "s", " ", "M", "a", "v", "e", "r", "i", "c", "k", "s">>, abbreviation |-> <<"D", "A", "L">>]],
       [id |-> 2, first_name |-> <<"L", "u", "k", "a">>, last_name |-> <<"G", "a", "r", "z", "a">>,
        team |-> [full_name |-> <<"B", "o", "s", "t", "o", "n", " ", "C", "e", "l", "t", "i", "c", "s">>, abbreviation |-> <<"B", "O", "S">>]],
       [id |-> 3, first_name |-> <<"D", "e", "v", "i", "n">>, last_name |-> <<"B", "o", "o", "k", "e", "r">>,
        team |-> [full_name |-> <<"P", "h", "o", "e", "n", "i", "x", " ", "S", "u", "n", "s">>, abbreviation |-> <<"P", "H", "X">>]] >>
PlayerIds == 1..Len(PlayerDB)

\* What the user may type: an exact name, a transposed name, a name with a
\* two-letter word, a name with a team of the strip list, two letters, and
\* a first name with a team abbreviation.
UserInputs ==
    { <<"L", "u", "k", "a", " ", "D", "o", "n", "c", "i", "c">>,
      <<"d", "o", "n", "c", "i", "c", " ", "l", "u", "k", "a">>,
      <<"l", "u", " ", "g", "a", "r", "z", "a">>,
      <<"b", "o", "o", "k", "e", "r", " ", "s", "u", "n", "s">>,
      <<"l", "u">>,
      <<"l", "u", "k", "a", " ", "d", "a", "l">> }

\* The lists of at most n distinct players.
RECURSIVE Hits(_)
Hits(n) ==
    IF n = 0 THEN {<<>>}
    ELSE Hits(n - 1)
         \cup { Append(h, i) : h \in { x \in Hits(n - 1) : Len(x) = n - 1 },
                               i \in PlayerIds }

\* The responses to one GET /players: a failure, or the players listed.
SearchResponses ==
    { [kind |-> k, data |-> <<>>] : k \in {"non200", "exception"} }
    \cup { [kind |-> "ok", data |-> d] :
             d \in { h \in Hits(MaxHits) : \A i, j \in 1..Len(h) : i # j => h[i] # h[j] } }

\* for p in data: candidates[p["id"]] = p (a key keeps its first position)
RECURSIVE AddCandidates(_, _)
AddCandidates(cands, data) ==
    IF data = <<>> THEN cands
    ELSE AddCandidates(
            IF \E i \in 1..Len(cands) : cands[i] = data[1] THEN cands
            ELSE Append(cands, data[1]),
            Tail(data))

\* The length of the common run of a from i and b from j.
RECURSIVE RunLen(_, _, _, _)
RunLen(a, b, i, j) ==
    IF i > Len(a) \/ j > Len(b) THEN 0
    ELSE IF a[i] # b[j] THEN 0
    ELSE 1 + RunLen(a, b, i + 1, j + 1)

\* The number of matching characters of difflib.SequenceMatcher (no junk):
\* the longest common block, the earliest in a and then in b, and the same
\* to its left and to its right.
RECURSIVE MatchingChars(_, _)
MatchingChars(a, b) ==
    IF a = <<>> \/ b = <<>> THEN 0
    ELSE LET runs == [i \in 1..Len(a) |-> [j \in 1..Len(b) |-> RunLen(a, b, i, j)]]
             size == CHOOSE k \in 0..Len(a) :
                        /\ \A i \in 1..Len(a) : \A j \in 1..Len(b) : runs[i][j] <= k
                        /\ k > 0 => \E i \in 1..Len(a) : \E j \in 1..Len(b) : runs[i][j] = k
         IN IF size = 0 THEN 0
            ELSE LET i == CHOOSE x \in 1..Len(a) :
                              /\ \E j \in 1..Len(b) : runs[x][j] = size
                              /\ \A h \in 1..(x - 1) : \A j \in 1..Len(b) : runs[h][j] # size
                     j == CHOOSE y \in 1..Len(b) :
                              /\ runs[i][y] = size
                              /\ \A h \in 1..(y - 1) : runs[i][h] # size
                 IN size
                    + MatchingChars(SubSeq(a, 1, i - 1), SubSeq(b, 1, j - 1))
                    + MatchingChars(SubSeq(a, i + size, Len(a)), SubSeq(b, j + size, Len(b)))

NameWeight == 100
ExactBonus == 50
TeamBonus == 30

\* The score of a candidate, an exact rational.
Score(p, user_input) ==
    LET clean_input == CleanInput(user_input)
        full_name == Lower(p.first_name) \o <<" ">> \o Lower(p.last_name)
        total == Len(clean_input) + Len(full_name)
        matches == MatchingChars(clean_input, full_name)
        exact == IF clean_input = full_name THEN ExactBonus ELSE 0
        team == IF \/ Contains(Lower(p.team.full_name), Lower(user_input))
                   \/ Contains(Lower(p.team.abbreviation), Lower(user_input))
                THEN TeamBonus ELSE 0
    IN Frac(NameWeight * 2 * matches + (exact + team) * total, total)

AtLeast(x, y) == x.n * y.d >= y.n * x.d

BestMatch_wrong(cands, user_input) == cands[1]

\* scored_results.sort(key=score, reverse=True); scored_results[0][1]: the
\* sort is stable, so the first of the candidates with the highest score.
BestMatch(cands, user_input) ==
    cands[CHOOSE i \in 1..Len(cands) :
            /\ \A j \in 1..Len(cands) :
                  AtLeast(Score(PlayerDB[cands[i]], user_input),
                          Score(PlayerDB[cands[j]], user_input))
            /\ \A j \in 1..(i - 1) :
                  ~AtLeast(Score(PlayerDB[cands[j]], user_input),
                           Score(PlayerDB[cands[i]], user_input))]

NotFound == [found |-> FALSE]

\* One iteration of `for q in queries` that is not skipped: the request,
\* the candidates it adds, and the break after the cleaned string.
ResQuery_wrong(resp) ==
    /\ res_pc = "search"
    /\ Len(res_issued) < Len(Searched(Queries(CleanInput(res_input))))
    /\ LET q == Searched(Queries(CleanInput(res_input)))[Len(res_issued) + 1]
       IN /\ res_issued' = Append(res_issued, q)
          /\ candidates' = IF resp.kind = "ok" THEN resp.data ELSE candidates
          /\ res_returned' = IF resp.kind = "ok"
                             THEN res_returned \cup { resp.data[i] : i \in 1..Len(resp.data) }
                             ELSE res_returned
          /\ res_pc' = IF candidates' # <<>> /\ q = CleanInput(res_input)
                       THEN "score" ELSE "search"
    /\ UNCHANGED <<res_input, res_result>>
    /\ UNCHANGED <<log_vars, ng_vars, adv_vars, rot_vars, odds_vars, run_vars, page_vars>>

ResQuery(resp) ==
    /\ res_pc = "search"
    /\ Len(res_issued) < Len(Searched(Queries(CleanInput(res_input))))
    /\ LET q == Searched(Queries(CleanInput(res_input)))[Len(res_issued) + 1]
       IN /\ res_issued' = Append(res_issued, q)
          /\ candidates' = IF resp.kind = "ok"
                           THEN AddCandidates(candidates, resp.data) ELSE candidates
          /\ res_returned' = IF resp.kind = "ok"
                             THEN res_returned \cup { resp.data[i] : i \in 1..Len(resp.data) }
                             ELSE res_returned
          /\ res_pc' = IF candidates' # <<>> /\ q = CleanInput(res_input)
                       THEN "score" ELSE "search"
    /\ UNCHANGED <<res_input, res_result>>
    /\ UNCHANGED <<log_vars, ng_vars, adv_vars, rot_vars, odds_vars, run_vars, page_vars>>

\* The loop has gone through all the queries.
ResSearchEnd ==
    /\ res_pc = "search"
    /\ Len(res_issued) = Len(Searched(Queries(CleanInput(res_input))))
    /\ res_pc' = "score"
    /\ UNCHANGED <<res_input, candidates, res_issued, res_returned, res_result>>
    /\ UNCHANGED <<log_vars, ng_vars, adv_vars, rot_vars, odds_vars, run_vars, page_vars>>

\* `if not candidates: return None, ...`, else the best match.
ResReturn ==
    /\ res_pc = "score"
    /\ res_result' = IF candidates = <<>> THEN NotFound
                     ELSE [found |-> TRUE, id |-> BestMatch(candidates, res_input)]
    /\ res_pc' = "done"
    /\ UNCHANGED <<res_input, candidates, res_issued, res_returned>>
    /\ UNCHANGED <<log_vars, ng_vars, adv_vars, rot_vars, odds_vars, run_vars, page_vars>>

(***************************************************************************)
(* normalize_team_name and get_betting_game_and_odds.                      *)
(***************************************************************************)
IsAlnum(c) ==
    \/ \E i \in 1..Len(Lowers) : Lowers[i] = c
    \/ \E i \in 1..Len(Uppers) : Uppers[i] = c
    \/ IsDigit(c)

RECURSIVE KeepAlnum(_)
KeepAlnum(cs) ==
    IF cs = <<>> THEN <<>>
    ELSE IF IsAlnum(cs[1]) THEN <<cs[1]>> \o KeepAlnum(Tail(cs))
    ELSE KeepAlnum(Tail(cs))

\* normalize_team_name: "" for None or "", else the lowered alphanumerics.
normalize_team_name(name) ==
    IF ~Truthy(name) THEN <<>> ELSE KeepAlnum(Lower(name.v))

\* Times are ticks of half a day; an ISO timestamp is a date and a time of
\* day.
TicksPerDay == 2
IsoFormat(tick) == [t |-> "iso", date |-> tick \div TicksPerDay, time |-> tick % TicksPerDay]
Unparseable == [t |-> "str", v |-> <<"T", "B", "D">>]

\* datetime.fromisoformat(ct.replace("Z", "+00:00")): a ValueError is NoValue.
FromIso(ct) == IF ct.t = "iso" THEN Value(ct.date * TicksPerDay + ct.time) ELSE NoValue

\* dt.date().isoformat()
DateOf(tick) == tick \div TicksPerDay

\* now_utc
NowTick == 2

\* The team of the player, and the names the odds provider uses.
TeamName == JStr(<<"L", "o", "s", " ", "A", "n", "g", "e", "l", "e", "s", " ", "L", "a", "k", "e", "r", "s">>)
OddsLakers == JStr(<<"L", "o", "s", " ", "A", "n", "g", "e", "l", "e", "s", " ", "L", "a", "k", "e", "r", "s">>)
OddsCeltics == JStr(<<"B", "o", "s", "t", "o", "n", " ", "C", "e", "l", "t", "i", "c", "s">>)
OddsClippers == JStr(<<"L", "A", " ", "C", "l", "i", "p", "p", "e", "r", "s">>)

\* commence_time: a timestamp of the window, a missing key or a text that
\* does not parse.
CommenceTimes == { IsoFormat(k) : k \in 0..MaxTick } \cup {Absent, Unparseable}

\* The events of a response: the team at home (one bookmaker with a
\* moneyline) or away (no bookmaker), an event listing the team under a
\* null home name, and events of other teams that start now or next.
OddsEvents ==
    { [home_team |-> OddsLakers, away_team |-> OddsCeltics, bookmakers |-> 1, commence_time |-> ct] :
        ct \in CommenceTimes }
    \cup { [home_team |-> OddsCeltics, away_team |-> OddsLakers, bookmakers |-> 0, commence_time |-> ct] :
        ct \in CommenceTimes }
    \cup { [home_team |-> Null, away_team |-> OddsLakers, bookmakers |-> 0,
            commence_time |-> IsoFormat(NowTick + 1)] }
    \cup { [home_team |-> OddsClippers, away_team |-> OddsCeltics, bookmakers |-> 1,
            commence_time |-> IsoFormat(k)] : k \in {NowTick, NowTick + 1} }

RECURSIVE EventLists(_)
EventLists(n) ==
    IF n = 0 THEN {<<>>}
    ELSE EventLists(n - 1)
         \cup { Append(l, e) : l \in { x \in EventLists(n - 1) : Len(x) = n - 1 },
                               e \in OddsEvents }

\* What GET /odds can bring (or the missing key that prevents it).
OddsResponses ==
    { [kind |-> k, games |-> <<>>] : k \in {"nokey", "non200", "exception", "notlist"} }
    \cup { [kind |-> "ok", games |-> l] : l \in EventLists(MaxEvents) }

\* What GET /events/{id}/odds can bring: a failure, no line of the player,
\* lines of the player.
PropsOutcomes == {"error", "none", "lines"}

\* The event passes the filters of the loop: the team is on one side and
\* the commence time is present and parses.
EventMatches(g, team_norm) ==
    /\ \/ Contains(team_norm, normalize_team_name(GetNone(g.home_team)))
       \/ Contains(team_norm, normalize_team_name(GetNone(g.away_team)))
    /\ g.commence_time # Absent
    /\ FromIso(g.commence_time).ok

Abs(n) == IF n < 0 THEN -n ELSE n
TimeOf(games, i) == FromIso(games[i].commence_time).v

\* The loop `for g in games`, from event i on; best and closest are the
\* positions of best_future_game and closest_any_game, 0 for None.
RECURSIVE PickLoop(_, _, _, _, _, _)
PickLoop(games, i, team_norm, now, best, closest) ==
    IF i > Len(games) THEN [best_future_game |-> best, closest_any_game |-> closest]
    ELSE IF ~EventMatches(games[i], team_norm)
    THEN PickLoop(games, i + 1, team_norm, now, best, closest)
    ELSE LET dt == TimeOf(games, i)
             best2 == IF dt >= now /\ (best = 0 \/ dt < TimeOf(games, best))
                      THEN i ELSE best
             closest2 == IF closest = 0 \/ Abs(dt - now) < Abs(TimeOf(games, closest) - now)
                         THEN i ELSE closest
         IN PickLoop(games, i + 1, team_norm, now, best2, closest2)

SelectedGame_wrong(games, team_name, now) ==
    PickLoop(games, 1, normalize_team_name(team_name), now, 0, 0).closest_any_game

\* selected_game = best_future_game or closest_any_game: its position, or 0.
SelectedGame(games, team_name, now) ==
    LET picked == PickLoop(games, 1, normalize_team_name(team_name), now, 0, 0)
    IN IF picked.best_future_game # 0 THEN picked.best_future_game
       ELSE picked.closest_any_game

NoBetting(text) ==
    [odds_text |-> text, tipoff_iso |-> Null, home_team |-> Null, away_team |-> Null]

\* odds_text of a selected event: the sections built, or "No odds available."
OddsText(props, bookmakers) ==
    IF props = "lines" /\ bookmakers > 0 THEN "Player Props + Game Moneyline"
    ELSE IF props = "lines" THEN "Player Props"
    ELSE IF bookmakers > 0 THEN "Game Moneyline"
    ELSE "No odds available."

\* The dict get_betting_game_and_odds returns.
get_betting_game_and_odds(resp, props, team_name, now) ==
    IF resp.kind = "nokey" THEN NoBetting("Betting API key missing.")
    ELSE IF resp.kind = "non200" THEN NoBetting("Error fetching games from Betting API")
    ELSE IF resp.kind = "exception" THEN NoBetting("Error fetching odds")
    ELSE IF resp.kind = "notlist" \/ resp.games = <<>> THEN NoBetting("No betting lines available.")
    ELSE LET k == SelectedGame(resp.games, team_name, now) IN
         IF k = 0 THEN NoBetting("No active betting lines found")
         ELSE [odds_text |-> OddsText(props, resp.games[k].bookmakers),
               tipoff_iso |-> IsoFormat(TimeOf(resp.games, k)),
               home_team |-> resp.games[k].home_team,
               away_team |-> resp.games[k].away_team]

\* The requests the function sends: /odds unless the key is missing, then
\* /events/{game_id}/odds for the selected event (ids are positions).
OddsRequestsOf(resp, team_name, now) ==
    IF resp.kind = "nokey" THEN <<>>
    ELSE <<[url |-> "/odds", game_id |-> 0]>>
         \o (IF resp.kind = "ok" /\ SelectedGame(resp.games, team_name, now) # 0
             THEN <<[url |-> "/events/odds", game_id |-> SelectedGame(resp.games, team_name, now)]>>
             ELSE <<>>)

\* One call of get_betting_game_and_odds.
OddsCall(props) ==
    /\ odds_pc = "call"
    /\ odds_result' = get_betting_game_and_odds(odds_resp, props, TeamName, NowTick)
    /\ odds_requests' = OddsRequestsOf(odds_resp, TeamName, NowTick)
    /\ odds_pc' = "done"
    /\ UNCHANGED odds_resp
    /\ UNCHANGED <<log_vars, ng_vars, adv_vars, rot_vars, res_vars, run_vars, page_vars>>

(***************************************************************************)
(* run_analysis: the pipeline, one action per numbered step.  The          *)
(* components are taken by their outcomes: a failed request, an empty      *)
(* response, data.                                                         *)
(***************************************************************************)
\* A call of a component is recorded when it is made, a request when it is
\* sent: site is the calling function, ep the path and arg the parameters
\* of the request; outcome is "failed" for a timeout, an exception or a
\* non-success status, "empty" for a response without items, "data"
\* otherwise.
Called_wrong(calls, fn, arg) == <<[fn |-> fn, arg |-> arg]>> \o calls

Called(calls, fn, arg) == Append(calls, [fn |-> fn, arg |-> arg])

Sent_wrong(http, site, ep, arg, outcome) ==
    IF outcome # "failed"
    THEN Append(http, [site |-> site, ep |-> ep, arg |-> arg, outcome |-> outcome])
    ELSE http \o <<[site |-> site, ep |-> ep, arg |-> arg, outcome |-> outcome],
                   [site |-> site, ep |-> ep, arg |-> arg, outcome |-> outcome]>>

Sent(http, site, ep, arg, outcome) ==
    Append(http, [site |-> site, ep |-> ep, arg |-> arg, outcome |-> outcome])

\* The parameters of a schedule request (the days ahead, or the days
\* before today) and of a box-score request (page 0: no page parameter).
GamesParams(team, window) == [team |-> team, window |-> window]
StatsParams(game_ids, page) == [game_ids |-> game_ids, page |-> page]

\* The outcome named by a component's result.
Outcome(out) ==
    IF out \in {"error", "search error", "non200", "exception"} THEN "failed"
    ELSE IF out \in {"empty", "not found"} THEN "empty"
    ELSE "data"

\* The values of the locals before step 2, and the stored result of an
\* earlier run.
UnknownMatchup == [src |-> "none", text |-> "Unknown matchup"]
UnknownDate == [t |-> "text", v |-> "Unknown date"]
ShownDate(d) == [t |-> "date", v |-> d]
NoOpponent == "None"
UnknownOpponent == [t |-> "text", v |-> "Unknown opponent"]

\* The teams of the stats provider, by id: the player's team and two others.
BdlTeam(id) ==
    CASE id = "team" -> [id |-> "team", abbreviation |-> "LAL", full_name |-> TeamName]
      [] id = "teamA" -> [id |-> "teamA", abbreviation |-> "LAC", full_name |-> OddsClippers]
      [] OTHER -> [id |-> "teamB", abbreviation |-> "BOS", full_name |-> OddsCeltics]
PreviousData == [previous |-> TRUE]
PreviousMessages == <<"previous">>

InitialLocals ==
    [player_obj |-> FALSE,
     bdl |-> NoGame,
     matchup |-> UnknownMatchup,
     game_date_display |-> UnknownDate,
     opp_id |-> NoOpponent,
     opp_name_bdl |-> UnknownOpponent,
     opp_abbr |-> "",
     betting |-> NoBetting(""),
     inj_home |-> "",
     inj_opp |-> "",
     past_games |-> <<>>,
     adv_home |-> <<>>,
     log_lines |-> <<>>,
     adv_opp |-> <<>>,
     rotation |-> [rows |-> "[]", games_used |-> 0],
     opp_rotation |-> [rows |-> "[]", games_used |-> 0]]

\* Step 1: get_player_info_smart returns a player, finds nobody, or fails.
ResolverOutcomes == {"found", "not found", "search error"}

AfterResolve_wrong(found) == "next_game"

\* `if not player_obj: ... st.stop()`
AfterResolve(found) == IF found THEN "next_game" ELSE "stopped"

RunResolve(out) ==
    /\ run_pc = "resolve"
    /\ run_calls' = Called(run_calls, "get_player_info_smart", "input")
    /\ run_http' = Sent(run_http, "get_player_info_smart", "/players", "search",
                        Outcome(out))
    /\ run_local' = [run_local EXCEPT !.player_obj = (out = "found")]
    /\ run_pc' = AfterResolve(out = "found")
    /\ UNCHANGED <<analysis_data, messages, run_teams>>
    /\ UNCHANGED <<log_vars, ng_vars, adv_vars, rot_vars, res_vars, odds_vars, page_vars>>

\* Step 2: the responses to the schedule request of get_next_game_bdl: a
\* failure, no game, a home game on day 1, a Final game followed by an away
\* game on day 2.
RunNgResponses ==
    { [status |-> "non200", data |-> <<>>],
      [status |-> "ok", data |-> <<>>],
      [status |-> "ok", data |->
          <<[id |-> 1, date |-> 1, status |-> "7:00 pm ET", home |-> "team", visitor |-> "teamA"]>>],
      [status |-> "ok", data |->
          <<[id |-> 1, date |-> 1, status |-> "Final", home |-> "team", visitor |-> "teamB"],
            [id |-> 2, date |-> 2, status |-> "7:00 pm ET", home |-> "teamA", visitor |-> "team"]>>] }

RunNextGame(resp) ==
    /\ run_pc = "next_game"
    /\ run_calls' = Called(run_calls, "get_next_game_bdl", "team")
    /\ run_http' = Sent(run_http, "get_next_game_bdl", "/games", GamesParams("team", "ahead"),
                        IF resp.status # "ok" THEN "failed"
                        ELSE IF resp.data = <<>> THEN "empty" ELSE "data")
    /\ LET bdl == get_next_game_bdl(resp) IN
       run_local' =
          IF bdl.found
          THEN [run_local EXCEPT !.bdl = bdl,
                                 !.matchup = [src |-> "bdl", loc |-> bdl.loc, opp |-> bdl.opp],
                                 !.game_date_display = ShownDate(bdl.date),
                                 !.opp_id = bdl.opp,
                                 !.opp_name_bdl = BdlTeam(bdl.opp).full_name,
                                 !.opp_abbr = BdlTeam(bdl.opp).abbreviation]
          ELSE [run_local EXCEPT !.bdl = bdl]
    /\ run_pc' = "odds"
    /\ UNCHANGED <<analysis_data, messages, run_teams>>
    /\ UNCHANGED <<log_vars, ng_vars, adv_vars, rot_vars, res_vars, odds_vars, page_vars>>

\* Step 3: the responses to GET /odds (the page runs the pipeline only with
\* an odds key): a non-success status, an exception, no event, the team at
\* home on day 1, the team away on day 2.
RunOddsResponses ==
    { [kind |-> "non200", games |-> <<>>],
      [kind |-> "exception", games |-> <<>>],
      [kind |-> "ok", games |-> <<>>],
      [kind |-> "ok", games |->
          <<[home_team |-> OddsLakers, away_team |-> OddsCeltics, bookmakers |-> 1,
             commence_time |-> IsoFormat(NowTick + 1)]>>],
      [kind |-> "ok", games |->
          <<[home_team |-> OddsCeltics, away_team |-> OddsLakers, bookmakers |-> 0,
             commence_time |-> IsoFormat(NowTick + 2)]>>] }

RunPropsOutcomes == {"error", "lines"}

\* The requests of get_betting_game_and_odds, as records of the log (an id
\* is written as its digit).
RECURSIVE SentAll(_, _, _, _)
SentAll(http, site, reqs, oks) ==
    IF reqs = <<>> THEN http
    ELSE SentAll(Sent(http, site, reqs[1].url, Digits[reqs[1].game_id + 1], oks[1]),
                 site, Tail(reqs), Tail(oks))

\* The matchup inferred from the odds event: the side that is not the team.
MatchupFromOdds(betting, tname) ==
    LET norm_team == normalize_team_name(tname)
        home_norm == normalize_team_name(betting.home_team)
        away_norm == normalize_team_name(betting.away_team)
    IN IF Contains(norm_team, home_norm)
       THEN [src |-> "odds", loc |-> "vs", opp |-> betting.away_team]
       ELSE IF Contains(norm_team, away_norm)
       THEN [src |-> "odds", loc |-> "@", opp |-> betting.home_team]
       ELSE [src |-> "odds", loc |-> "vs", opp |-> betting.away_team]

\* `if tipoff_iso and game_date_display == "Unknown date"`: the date shown.
DateShown(game_date_display, tipoff_iso) ==
    IF tipoff_iso # Null /\ game_date_display = UnknownDate /\ FromIso(tipoff_iso).ok
    THEN ShownDate(DateOf(FromIso(tipoff_iso).v))
    ELSE game_date_display

\* The fallback applies: no matchup from the schedule, both names known.
NeedsFallback(local, betting) ==
    /\ local.matchup = UnknownMatchup
    /\ Truthy(GetNone(betting.home_team))
    /\ Truthy(GetNone(betting.away_team))

RunOdds(resp, props) ==
    /\ run_pc = "odds"
    /\ run_calls' = Called(run_calls, "get_betting_game_and_odds", "team")
    /\ LET betting == get_betting_game_and_odds(resp, props, TeamName, NowTick)
           reqs == OddsRequestsOf(resp, TeamName, NowTick)
           oks == <<IF resp.kind # "ok" THEN "failed"
                    ELSE IF resp.games = <<>> THEN "empty" ELSE "data",
                    Outcome(props)>>
       IN /\ run_http' = SentAll(run_http, "get_betting_game_and_odds", reqs, oks)
          /\ IF NeedsFallback(run_local, betting)
             THEN /\ run_local' = [run_local EXCEPT
                                      !.betting = betting,
                                      !.matchup = MatchupFromOdds(betting, TeamName)]
                  /\ run_pc' = IF run_local.opp_id = NoOpponent THEN "team_lookup"
                               ELSE "injuries"
             ELSE /\ run_local' = [run_local EXCEPT
                                      !.betting = betting,
                                      !.game_date_display =
                                          DateShown(run_local.game_date_display, betting.tipoff_iso)]
                  /\ run_pc' = "injuries"
    /\ UNCHANGED <<analysis_data, messages, run_teams>>
    /\ UNCHANGED <<log_vars, ng_vars, adv_vars, rot_vars, res_vars, odds_vars, page_vars>>

\* The responses to GET /teams: a failure, no team, the full list with the
\* opponent in second place, a list without the opponent.
TeamResponses ==
    { [kind |-> "error", data |-> <<>>],
      [kind |-> "ok", data |-> <<>>],
      [kind |-> "ok", data |-> <<BdlTeam("team"), BdlTeam("teamB"), BdlTeam("teamA")>>],
      [kind |-> "ok", data |-> <<BdlTeam("teamA")>>] }

\* difflib.SequenceMatcher(a=a, b=b).ratio(): 2 * matches / total length,
\* and 1 for two empty strings.
Similarity(a, b) ==
    IF Len(a) + Len(b) = 0 THEN Frac(1, 1)
    ELSE Frac(2 * MatchingChars(a, b), Len(a) + Len(b))

MoreThan(x, y) == x.n * y.d > y.n * x.d

\* {}: no team.
NoTeam == [id |-> NoOpponent]

\* `for t in data`: the best team so far and its score.
RECURSIVE BestTeam(_, _, _, _)
BestTeam(data, target, best, best_score) ==
    IF data = <<>> THEN best
    ELSE LET score == Similarity(target, normalize_team_name(data[1].full_name)) IN
         IF MoreThan(score, best_score)
         THEN BestTeam(Tail(data), target, data[1], score)
         ELSE BestTeam(Tail(data), target, best, best_score)

get_bdl_team_by_name_wrong(resp, name) ==
    IF resp.kind # "ok" \/ resp.data = <<>> THEN NoTeam ELSE resp.data[1]

\* get_bdl_team_by_name: {} on a failure, else the first of the teams whose
\* normalized full name is the most similar to the normalized name, if any
\* is similar at all.
get_bdl_team_by_name(resp, name) ==
    IF resp.kind # "ok" THEN NoTeam
    ELSE BestTeam(resp.data, normalize_team_name(name), NoTeam, Zero)

\* The teams of the response, each with the score the loop computes for it.
Scored(data, name) ==
    [i \in 1..Len(data) |->
        [team |-> data[i],
         score |-> Similarity(normalize_team_name(name),
                              normalize_team_name(data[i].full_name))]]

\* `if not opp_id`: the guessed opponent is mapped to a team of the stats
\* provider; {} leaves opp_id None, opp_abbr as it was and the guessed name.
\* Then the date shown.
RunTeamLookup(resp) ==
    /\ run_pc = "team_lookup"
    /\ run_calls' = Called(run_calls, "get_bdl_team_by_name", "opponent name")
    /\ run_http' = Sent(run_http, "get_bdl_team_by_name", "/teams", "all",
                        IF resp.kind # "ok" THEN "failed"
                        ELSE IF resp.data = <<>> THEN "empty" ELSE "data")
    /\ run_teams' = Scored(resp.data, run_local.matchup.opp)
    /\ LET opp_guess == run_local.matchup.opp
           opp_team_bdl == get_bdl_team_by_name(resp, opp_guess)
       IN run_local' = [run_local EXCEPT
                           !.opp_id = opp_team_bdl.id,
                           !.opp_abbr = IF opp_team_bdl = NoTeam THEN @
                                        ELSE opp_team_bdl.abbreviation,
                           !.opp_name_bdl = IF opp_team_bdl = NoTeam THEN opp_guess
                                            ELSE opp_team_bdl.full_name,
                           !.game_date_display =
                               DateShown(run_local.game_date_display, run_local.betting.tipoff_iso)]
    /\ run_pc' = "injuries"
    /\ UNCHANGED <<analysis_data, messages>>
    /\ UNCHANGED <<log_vars, ng_vars, adv_vars, rot_vars, res_vars, odds_vars, page_vars>>

\* Step 4: get_team_injuries for the team, and for the opponent if known.
InjuryOutcomes == {"error", "empty", "reports"}

InjuryText_wrong(out) == "reports"

InjuryText(out) ==
    IF out = "error" THEN "Error fetching injuries"
    ELSE IF out = "empty" THEN "No active injuries."
    ELSE "reports"

RunInjuries(home_out, opp_out) ==
    /\ run_pc = "injuries"
    /\ LET opp == run_local.opp_id
           calls1 == Called(run_calls, "get_team_injuries", "team")
           http1 == Sent(run_http, "get_team_injuries", "/player_injuries", "team",
                         Outcome(home_out))
       IN IF opp = NoOpponent
          THEN /\ opp_out = "empty"
               /\ run_calls' = calls1
               /\ run_http' = http1
               /\ run_local' = [run_local EXCEPT !.inj_home = InjuryText(home_out),
                                                 !.inj_opp = "N/A"]
          ELSE /\ run_calls' = Called(calls1, "get_team_injuries", opp)
               /\ run_http' = Sent(http1, "get_team_injuries", "/player_injuries", opp,
                                   Outcome(opp_out))
               /\ run_local' = [run_local EXCEPT !.inj_home = InjuryText(home_out),
                                                 !.inj_opp = InjuryText(opp_out)]
    /\ run_pc' = "schedule"
    /\ UNCHANGED <<analysis_data, messages, run_teams>>
    /\ UNCHANGED <<log_vars, ng_vars, adv_vars, rot_vars, res_vars, odds_vars, page_vars>>

\* Step 5: get_team_schedule_before_today: a failure, no finished game, the
\* finished games of the team (one game of its own for each team).
ScheduleOutcomes == {"error", "empty", "games"}
PastGames(team) == IF team = "team" THEN <<1>> ELSE <<2>>
PastGamesOf(team, out) == IF out = "games" THEN PastGames(team) ELSE <<>>

RunSchedule(out) ==
    /\ run_pc = "schedule"
    /\ run_calls' = Called(run_calls, "get_team_schedule_before_today", "team")
    /\ run_http' = Sent(run_http, "run_analysis", "/games", GamesParams("team", "before"),
                        Outcome(out))
    /\ run_local' = [run_local EXCEPT !.past_games = PastGamesOf("team", out)]
    /\ run_pc' = "metrics"
    /\ UNCHANGED <<analysis_data, messages, run_teams>>
    /\ UNCHANGED <<log_vars, ng_vars, adv_vars, rot_vars, res_vars, odds_vars, page_vars>>

\* compute_team_advanced_stats by its outcomes: the fetch fails, no row,
\* rows, or a row with a null field, on which the aggregation raises.
MetricsOutcomes == {"error", "empty", "rows", "null field"}
MetricsOf(games, out) ==
    [games_used |-> IF games # <<>> /\ out = "rows" THEN Len(games) ELSE 0]
SentForMetrics(http, games, out) ==
    IF games = <<>> THEN http
    ELSE Sent(http, "compute_team_advanced_stats", "/stats", StatsParams(games, 1),
              Outcome(out))

RunMetrics(out) ==
    /\ run_pc = "metrics"
    /\ run_local.past_games = <<>> => out = "empty"
    /\ run_calls' = Called(run_calls, "compute_team_advanced_stats", "team")
    /\ run_http' = SentForMetrics(run_http, run_local.past_games, out)
    /\ IF out = "null field"
       THEN run_pc' = "error" /\ UNCHANGED run_local
       ELSE /\ run_pc' = "box_scores"
            /\ run_local' = [run_local EXCEPT !.adv_home = MetricsOf(run_local.past_games, out)]
    /\ UNCHANGED <<analysis_data, messages, run_teams>>
    /\ UNCHANGED <<log_vars, ng_vars, adv_vars, rot_vars, res_vars, odds_vars, page_vars>>

\* get_player_stats_for_games and the game-log loop, by the outcome of each
\* game's request: a failure, no row, a row with minutes.
BoxOutcomes == {"error", "empty", "played"}

RECURSIVE SentForGames(_, _, _)
SentForGames(http, games, outs) ==
    IF games = <<>> THEN http
    ELSE SentForGames(
            Sent(http, "get_player_stats_for_games", "/stats", StatsParams(<<games[1]>>, 0),
                 Outcome(outs[1])),
            Tail(games), Tail(outs))

LogLineOf(out) == IF out = "played" THEN "played" ELSE DNPMarker

RunBoxScores(outs) ==
    /\ run_pc = "box_scores"
    /\ Len(outs) = Len(run_local.past_games)
    /\ run_calls' = Called(run_calls, "get_player_stats_for_games", "player")
    /\ run_http' = SentForGames(run_http, run_local.past_games, outs)
    /\ run_local' = [run_local EXCEPT !.log_lines = [i \in 1..Len(outs) |-> LogLineOf(outs[i])]]
    /\ run_pc' = "opponent"
    /\ UNCHANGED <<analysis_data, messages, run_teams>>
    /\ UNCHANGED <<log_vars, ng_vars, adv_vars, rot_vars, res_vars, odds_vars, page_vars>>

\* Step 6: the opponent's schedule and advanced stats, `if opp_id`; then
\* step 7, compute_team_form, which sends nothing.
RunOpponent(sched_out, out) ==
    /\ run_pc = "opponent"
    /\ LET opp == run_local.opp_id
           games == PastGamesOf(opp, sched_out)
       IN IF opp = NoOpponent
          THEN /\ sched_out = "empty" /\ out = "empty"
               /\ run_calls' = Called(run_calls, "compute_team_form", "team")
               /\ UNCHANGED <<run_http, run_local>>
               /\ run_pc' = "rotation"
          ELSE /\ games = <<>> => out = "empty"
               /\ run_http' = SentForMetrics(
                                 Sent(run_http, "run_analysis", "/games",
                                      GamesParams(opp, "before"), Outcome(sched_out)),
                                 games, out)
               /\ IF out = "null field"
                  THEN /\ run_calls' = Called(Called(run_calls, "get_team_schedule_before_today", opp),
                                              "compute_team_advanced_stats", opp)
                       /\ run_pc' = "error"
                       /\ UNCHANGED run_local
                  ELSE /\ run_calls' =
                            Called(Called(Called(run_calls, "get_team_schedule_before_today", opp),
                                          "compute_team_advanced_stats", opp),
                                   "compute_team_form", "team")
                       /\ run_pc' = "rotation"
                       /\ run_local' = [run_local EXCEPT !.adv_opp = MetricsOf(games, out)]
    /\ UNCHANGED <<analysis_data, messages, run_teams>>
    /\ UNCHANGED <<log_vars, ng_vars, adv_vars, rot_vars, res_vars, odds_vars, page_vars>>

\* Step 8: get_team_rotation, by its outcomes: its schedule request fails
\* or brings no game, its box-score request fails, brings no row, or brings
\* rows (the roster request follows).
RotationOutcomes == {"schedule error", "no games", "stats error", "no rows", "rows"}

RotationOf(team, out) ==
    [rows |-> IF out = "rows" THEN "rows" ELSE "[]",
     games_used |-> IF out \in {"schedule error", "no games"} THEN 0 ELSE Len(PastGames(team))]

SentForRotation(http, team, out) ==
    LET h1 == Sent(http, "get_team_rotation", "/games", GamesParams(team, "before"),
                   IF out = "schedule error" THEN "failed"
                   ELSE IF out = "no games" THEN "empty" ELSE "data")
        h2 == IF out \in {"schedule error", "no games"} THEN h1
              ELSE Sent(h1, "get_team_rotation", "/stats", StatsParams(PastGames(team), 0),
                        IF out = "stats error" THEN "failed"
                        ELSE IF out = "no rows" THEN "empty" ELSE "data")
    IN IF out = "rows" THEN Sent(h2, "get_team_players", "/players", team, "data")
       ELSE h2

RunRotations(home_out, opp_out) ==
    /\ run_pc = "rotation"
    /\ LET opp == run_local.opp_id
           calls1 == Called(run_calls, "get_team_rotation", "team")
           http1 == SentForRotation(run_http, "team", home_out)
       IN IF opp = NoOpponent
          THEN /\ opp_out = "no games"
               /\ run_calls' = calls1
               /\ run_http' = http1
               /\ run_local' = [run_local EXCEPT !.rotation = RotationOf("team", home_out)]
          ELSE /\ run_calls' = Called(calls1, "get_team_rotation", opp)
               /\ run_http' = SentForRotation(http1, opp, opp_out)
               /\ run_local' = [run_local EXCEPT !.rotation = RotationOf("team", home_out),
                                                 !.opp_rotation = RotationOf(opp, opp_out)]
    /\ run_pc' = "llm"
    /\ UNCHANGED <<analysis_data, messages, run_teams>>
    /\ UNCHANGED <<log_vars, ng_vars, adv_vars, rot_vars, res_vars, odds_vars, page_vars>>

\* The result object built from the locals.
ResultOf(local) ==
    [matchup |-> local.matchup,
     opp_name |-> local.opp_name_bdl,
     opp_abbr |-> local.opp_abbr,
     date |-> local.game_date_display,
     odds |-> local.betting.odds_text,
     tipoff_iso |-> local.betting.tipoff_iso,
     log |-> local.log_lines,
     inj_home |-> local.inj_home,
     inj_opp |-> local.inj_opp,
     rotation_rows |-> local.rotation.rows,
     rotation_games_used |-> local.rotation.games_used,
     opp_rotation_rows |-> local.opp_rotation.rows,
     opp_rotation_games_used |-> local.opp_rotation.games_used,
     adv_home |-> local.adv_home,
     adv_opp |-> local.adv_opp]

RunLLM_wrong(ok) ==
    /\ run_pc = "llm"
    /\ run_calls' = Called(run_calls, "llm.invoke", "prompt")
    /\ analysis_data' = ResultOf(run_local)
    /\ IF ok
       THEN /\ messages' = <<"analysis">>
            /\ run_pc' = "done"
       ELSE /\ UNCHANGED messages
            /\ run_pc' = "error"
    /\ UNCHANGED <<run_http, run_local, run_teams>>
    /\ UNCHANGED <<log_vars, ng_vars, adv_vars, rot_vars, res_vars, odds_vars, page_vars>>

\* Step 9: llm.invoke returns and the result is stored, or it raises and
\* the handler reports the error.
RunLLM(ok) ==
    /\ run_pc = "llm"
    /\ run_calls' = Called(run_calls, "llm.invoke", "prompt")
    /\ IF ok
       THEN /\ analysis_data' = ResultOf(run_local)
            /\ messages' = <<"analysis">>
            /\ run_pc' = "done"
       ELSE /\ UNCHANGED <<analysis_data, messages>>
            /\ run_pc' = "error"
    /\ UNCHANGED <<run_http, run_local, run_teams>>
    /\ UNCHANGED <<log_vars, ng_vars, adv_vars, rot_vars, res_vars, odds_vars, page_vars>>

(***************************************************************************)
(* Idle values of the components a specification does not run.             *)
(***************************************************************************)
LogIdle ==
    /\ past_games = <<>>
    /\ stats_by_game = <<>>
    /\ requests = <<>>
    /\ fetch_failed = {}
    /\ log_lines = <<>>
    /\ stats_rows = <<>>
    /\ log_pc = "idle"

NgIdle ==
    /\ ng_resp = [status |-> "idle", data |-> <<>>]
    /\ ng_result = NoGame
    /\ ng_pc = "idle"

AdvIdle ==
    /\ adv_games = <<>>
    /\ adv_nrows = 0
    /\ per_game = <<>>
    /\ adv_raised = FALSE
    /\ adv_seen = {}
    /\ adv_result = NoResult
    /\ adv_pc = "idle"

RotIdle ==
    /\ per_player = <<>>
    /\ rot_played = <<>>
    /\ rot_nrows = 0
    /\ rot_rows = <<>>
    /\ rot_games = 0
    /\ rot_pc = "idle"

ResIdle ==
    /\ res_input = <<>>
    /\ candidates = <<>>
    /\ res_issued = <<>>
    /\ res_returned = {}
    /\ res_result = NotFound
    /\ res_pc = "idle"

OddsIdle ==
    /\ odds_resp = [kind |-> "idle", games |-> <<>>]
    /\ odds_requests = <<>>
    /\ odds_result = NoBetting("")
    /\ odds_pc = "idle"

RunIdle ==
    /\ run_pc = "idle"
    /\ run_calls = <<>>
    /\ run_http = <<>>
    /\ run_local = InitialLocals
    /\ analysis_data = PreviousData
    /\ messages = PreviousMessages
    /\ run_teams = <<>>

PageIdle ==
    /\ pg_total = 0
    /\ pg_page = 1
    /\ all_stats = <<>>
    /\ pg_log = <<>>
    /\ pg_pc = "idle"

(***************************************************************************)
(* Specification of the stats aggregator and the game log: run_analysis    *)
(* from `gids = [g["id"] for g in past_games]` to `final_log = ...`.       *)
(***************************************************************************)
\* Game ids are labels: the games of the window are numbered in list order.
InitLog ==
    /\ past_games \in { [i \in 1..k |-> i] : k \in 0..MaxGames }
    /\ stats_by_game = <<>>
    /\ requests = <<>>
    /\ fetch_failed = {}
    /\ log_lines = <<>>
    /\ stats_rows = <<>>
    /\ log_pc = "fetch"
    /\ NgIdle /\ AdvIdle /\ RotIdle /\ ResIdle /\ OddsIdle /\ RunIdle /\ PageIdle

NextLog ==
    \/ \E resp \in LogResponses : FetchGame(resp)
    \/ FetchReturn
    \/ LogGame
    \/ LogJoin

SpecLog == InitLog /\ [][NextLog]_vars

(***************************************************************************)
(* Claims about the stats aggregator and the game log.                     *)
(***************************************************************************)
IsPlayedLine(body) ==
    [i \in 1..Len(body) |-> body[i].k] = <<"MIN", "PTS", "REB", "AST", "FG", "3PT">>
IsDNPLine(body) == body = <<Token("DNP", Marker(DNPMarker))>>

\* C1: whatever the per-game lookups brought (row, no row, failure), the log
\* has one line per game of the list once the loop is over, and the body of
\* every line is a played line with MIN, PTS, REB, AST, FG, 3PT or exactly
\* the DNP marker.
C1_OneLinePerGame ==
    /\ log_pc = "done" => Len(log_lines) = Len(past_games)
    /\ Len(log_lines) <= Len(past_games)
    /\ \A i \in 1..Len(log_lines) :
          /\ log_lines[i].d = past_games[i]
          /\ IsPlayedLine(log_lines[i].body) \/ IsDNPLine(log_lines[i].body)
          /\ ~(IsPlayedLine(log_lines[i].body) /\ IsDNPLine(log_lines[i].body))

\* C1 witness: a finished log of two games or more with a played line and a
\* DNP line, one of the lookups having failed.
C1_Witness ==
    /\ log_pc = "done"
    /\ Len(log_lines) >= 2
    /\ fetch_failed # {}
    /\ \E i \in 1..Len(log_lines) : IsPlayedLine(log_lines[i].body)
    /\ \E i \in 1..Len(log_lines) : IsDNPLine(log_lines[i].body)

\* The zero-equivalent minutes: "0", "00:00", the empty string, and the
\* number 0, whose text is "0".
ZeroEquivalents ==
    { JStr(<<"0">>), JStr(<<"0", "0", ":", "0", "0">>), JStr(<<>>), JInt(0) }

RowCountsAsPlayed(gid) ==
    /\ gid \in DOMAIN stats_by_game
    /\ stats_by_game[gid].min \notin {Absent, Null}
    /\ stats_by_game[gid].min \notin ZeroEquivalents

\* C2: a game is logged as played iff a row exists for it and its minutes
\* are present and none of "0", "00:00" or empty, whatever its other fields.
C2_PlayedIffMinutes ==
    \A i \in 1..Len(log_lines) :
        /\ IsPlayedLine(log_lines[i].body) <=> RowCountsAsPlayed(past_games[i])
        /\ stats_rows[i].Is_DNP <=> ~RowCountsAsPlayed(past_games[i])

\* C2 witness: a row with minutes "00:00" and 7 points is logged as DNP, and
\* another game is logged as played.
C2_Witness ==
    /\ \E i \in 1..Len(log_lines) :
          /\ past_games[i] \in DOMAIN stats_by_game
          /\ stats_by_game[past_games[i]].min = JStr(<<"0", "0", ":", "0", "0">>)
          /\ stats_by_game[past_games[i]].pts = JInt(7)
          /\ IsDNPLine(log_lines[i].body)
    /\ \E i \in 1..Len(log_lines) : IsPlayedLine(log_lines[i].body)

\* C9: for a non-empty game list the aggregator has issued, when it returns,
\* one request only, carrying the full game-id list and the player id.
C9_SingleBatchedRequest ==
    (log_pc \in {"log", "done"} /\ past_games # <<>>) =>
        /\ Len(requests) = 1
        /\ requests[1].game_ids = past_games
        /\ requests[1].player_id

\* C10: when a box-score request has failed, every game of the window is
\* logged as DNP once the log is complete.
C10_FailureLogsAllDNP ==
    (log_pc = "done" /\ fetch_failed # {}) =>
        \A i \in 1..Len(log_lines) : IsDNPLine(log_lines[i].body)

\* min_val_raw of the game of line i.
RawOf(i) == MinValRaw(StatOf(stats_by_game, past_games[i]))

\* C28: the strict DNP check and parse_minutes agree: a game is classified
\* as played exactly when parse_minutes of its minutes field is greater than
\* 0, so no structured row has Is_DNP = false together with MIN = 0.
C28_StrictCheckAgreesWithParse ==
    \A i \in 1..Len(stats_rows) :
        /\ ~stats_rows[i].Is_DNP <=> parse_minutes(RawOf(i)) > 0
        /\ ~(~stats_rows[i].Is_DNP /\ stats_rows[i].MIN = 0)

\* C29: the text log and the structured rows are aligned: same length, row i
\* and line i are about the same game, row i has Is_DNP exactly when line i
\* carries the DNP marker, and every Is_DNP row has MIN = 0.
C29_LogAndRowsAligned ==
    /\ Len(stats_rows) = Len(log_lines)
    /\ \A i \in 1..Len(stats_rows) :
          /\ stats_rows[i].Date = log_lines[i].d
          /\ stats_rows[i].Date = past_games[i]
          /\ stats_rows[i].Is_DNP <=> IsDNPLine(log_lines[i].body)
          /\ stats_rows[i].Is_DNP => stats_rows[i].MIN = 0

\* C29 witness: a finished log of two games, a played one with minutes in its
\* row and a DNP one whose box-score row exists and carries points.
C29_Witness ==
    /\ log_pc = "done"
    /\ Len(stats_rows) = MaxGames
    /\ \E i \in 1..Len(stats_rows) :
          ~stats_rows[i].Is_DNP /\ stats_rows[i].MIN > 0
    /\ \E i \in 1..Len(stats_rows) :
          /\ stats_rows[i].Is_DNP
          /\ stats_rows[i].PTS = JInt(7)
          /\ IsDNPLine(log_lines[i].body)

(***************************************************************************)
(* Specification of get_next_game_bdl: any response, then the call.        *)
(***************************************************************************)
InitNg ==
    /\ ng_resp \in NgResponses
    /\ ng_result = NoGame
    /\ ng_pc = "call"
    /\ LogIdle /\ AdvIdle /\ RotIdle /\ ResIdle /\ OddsIdle /\ RunIdle /\ PageIdle

NextNg == NextGameCall

SpecNg == InitNg /\ [][NextNg]_vars

GameOfResult == ng_resp.data[ng_result.game_id]

\* C3: whatever games the provider returned and in whatever order, the game
\* reported as the next game does not have status Final.
C3_NextGameNotFinal ==
    (ng_pc = "done" /\ ng_result.found) => GameOfResult.status # "Final"

\* C3 witness: a game is reported although the response held a Final game
\* that is listed first and is not later than the reported one.
C3_Witness ==
    /\ ng_pc = "done"
    /\ ng_result.found
    /\ ng_result.game_id > 1
    /\ ng_resp.data[1].status = "Final"
    /\ ng_resp.data[1].date <= GameOfResult.date

(***************************************************************************)
(* Specification of compute_team_advanced_stats.                           *)
(***************************************************************************)
InitAdv ==
    /\ adv_games \in AdvGameLists
    /\ adv_nrows = 0
    /\ per_game = <<>>
    /\ adv_raised = FALSE
    /\ adv_seen = {}
    /\ adv_result = NoResult
    /\ adv_pc = "start"
    /\ LogIdle /\ NgIdle /\ RotIdle /\ ResIdle /\ OddsIdle /\ RunIdle /\ PageIdle

NextAdv ==
    \/ AdvStart
    \/ \E s \in AdvRows : AdvRow(s)
    \/ AdvFetchBreak
    \/ AdvFetchException

SpecAdv == InitAdv /\ [][NextAdv]_vars

\* The totals the accumulation loop builds from per_game.
AdvUsed == UsedGames(GameIdsOf(adv_games), per_game)
TeamPoss == TotPoss(AdvUsed, per_game, "team")
OppPoss == TotPoss(AdvUsed, per_game, "opp")
TeamTot(f) == TotField(AdvUsed, per_game, "team", f)
AdvReturned == adv_pc = "done" /\ ~adv_raised

RateFields ==
    {"off_rtg", "def_rtg", "net_rtg", "pace", "fg_pct", "two_pct", "three_pct",
     "three_pa_rate", "ft_pct", "ftr", "orb_pct", "drb_pct", "reb_pg", "tov_pg", "tov_pct"}
IsEmptyResult(r) == r.games_used = 0 /\ \A f \in RateFields : r[f].n = 0 /\ r[f].d > 0
Finite(x) == x.d > 0
NonNegative(x) == x.d > 0 /\ x.n >= 0
InUnit(x) == x.d > 0 /\ 0 <= x.n /\ x.n <= x.d

\* C4 as stated: with team possessions > 0, Offensive Rating, Defensive
\* Rating and Pace are finite and non-negative; with team possessions = 0
\* every rate is 0 and games_used is 0.
C4_RatingsAndPaceNonNegative ==
    AdvReturned =>
        /\ TeamPoss > 0 =>
              /\ NonNegative(adv_result.off_rtg)
              /\ NonNegative(adv_result.def_rtg)
              /\ NonNegative(adv_result.pace)
        /\ TeamPoss = 0 => IsEmptyResult(adv_result)

\* C4 amended: with team possessions > 0, Offensive and Defensive Rating
\* are finite and non-negative and Pace is finite, and Pace is non-negative
\* exactly when team plus opponent possessions are; with team possessions
\* <= 0 every rate is 0 and games_used is 0.
C4_RatingsNonNegativePaceFinite ==
    AdvReturned =>
        /\ TeamPoss > 0 =>
              /\ adv_result.games_used = Len(AdvUsed)
              /\ NonNegative(adv_result.off_rtg)
              /\ NonNegative(adv_result.def_rtg)
              /\ Finite(adv_result.net_rtg)
              /\ Finite(adv_result.pace)
              /\ NonNegative(adv_result.pace) <=> TeamPoss + OppPoss >= 0
        /\ TeamPoss <= 0 => IsEmptyResult(adv_result)

\* C4 witness: two used games, team possessions > 0, a positive Offensive
\* Rating and a negative Pace.
C4_Witness ==
    /\ AdvReturned
    /\ TeamPoss > 0
    /\ adv_result.games_used = 2
    /\ adv_result.off_rtg.n > 0
    /\ adv_result.pace.n < 0

\* C5 as stated: for non-negative inputs the rebound, shooting and turnover
\* percentages all lie in [0,1].
C5_PercentagesInUnit ==
    AdvReturned =>
        \A f \in {"orb_pct", "drb_pct", "fg_pct", "two_pct", "three_pct", "ft_pct", "tov_pct"} :
            InUnit(adv_result[f])

\* In every used game the team's makes do not exceed its attempts.
MakesWithinAttempts(made, tried) ==
    \A i \in 1..Len(AdvUsed) :
        per_game[AdvUsed[i]].team[made] <= per_game[AdvUsed[i]].team[tried]
TwosWithinAttempts ==
    \A i \in 1..Len(AdvUsed) :
        LET b == per_game[AdvUsed[i]].team
        IN 0 <= b.fgm - b.fg3m /\ b.fgm - b.fg3m <= b.fga - b.fg3a

\* C5 amended: for non-negative inputs orb_pct and drb_pct lie in [0,1];
\* fg_pct, three_pct and ft_pct are >= 0, and <= 1 when in every used game
\* the team's makes do not exceed its attempts in that category; two_pct is
\* in [0,1] when in every used game the two-point makes are between 0 and
\* the two-point attempts; tov_pct is >= 0, and is <= 1 exactly when the
\* offensive rebounds do not exceed FGA + 0.44 FTA over the used games or
\* team possessions are <= 0.
C5_PercentagesAmended ==
    AdvReturned =>
        /\ InUnit(adv_result.orb_pct)
        /\ InUnit(adv_result.drb_pct)
        /\ NonNegative(adv_result.fg_pct)
        /\ NonNegative(adv_result.three_pct)
        /\ NonNegative(adv_result.ft_pct)
        /\ MakesWithinAttempts("fgm", "fga") => InUnit(adv_result.fg_pct)
        /\ MakesWithinAttempts("fg3m", "fg3a") => InUnit(adv_result.three_pct)
        /\ MakesWithinAttempts("ftm", "fta") => InUnit(adv_result.ft_pct)
        /\ TwosWithinAttempts => InUnit(adv_result.two_pct)
        /\ NonNegative(adv_result.tov_pct)
        /\ InUnit(adv_result.tov_pct) <=>
              \/ TeamPoss <= 0
              \/ PossScale * TeamTot("oreb") <= PossScale * TeamTot("fga") + FtWeight * TeamTot("fta")

\* C5 witness: a returned result with a used game, both rebound percentages
\* strictly between 0 and 1, FG% within [0,1] and a turnover percentage
\* above 1.
C5_Witness ==
    /\ AdvReturned
    /\ adv_result.games_used > 0
    /\ 0 < adv_result.orb_pct.n /\ adv_result.orb_pct.n < adv_result.orb_pct.d
    /\ 0 < adv_result.drb_pct.n /\ adv_result.drb_pct.n < adv_result.drb_pct.d
    /\ 0 < adv_result.fg_pct.n /\ InUnit(adv_result.fg_pct)
    /\ adv_result.tov_pct.n > adv_result.tov_pct.d

\* C8: when no game yields usable data (empty game list, no game ids, a
\* failed or non-success fetch, no row of a requested game), the function
\* returns games_used = 0 with every rate 0, and does not raise.
C8_NoDataGivesEmpty ==
    (adv_pc = "done" /\ DOMAIN per_game = {}) =>
        /\ ~adv_raised
        /\ adv_result = empty
        /\ IsEmptyResult(adv_result)

\* C8 witness: rows were received for a non-empty game list, none of them
\* of a requested game, and the empty metrics were returned.
C8_Witness ==
    /\ adv_pc = "done"
    /\ GameIdsOf(adv_games) # <<>>
    /\ adv_nrows > 0
    /\ DOMAIN per_game = {}
    /\ adv_result = empty

\* C13: a row whose numeric field is missing or null is aggregated as if the
\* field were 0, and the function returns its metrics without raising.
C13_AbsentOrNullCountsAsZero ==
    /\ ~adv_raised
    /\ adv_pc = "done" => adv_result # NoResult

(***************************************************************************)
(* Specification of get_team_rotation.                                     *)
(***************************************************************************)
InitRot ==
    /\ per_player = <<>>
    /\ rot_played = <<>>
    /\ rot_nrows = 0
    /\ rot_rows = <<>>
    /\ rot_games \in {0, MaxGames}
    /\ rot_pc = "start"
    /\ LogIdle /\ NgIdle /\ AdvIdle /\ ResIdle /\ OddsIdle /\ RunIdle /\ PageIdle

NextRot ==
    \/ RotNoGames
    \/ RotFetchFail
    \/ RotFetchOk
    \/ \E s \in RotRowsAfter(per_player) : RotRow(s)
    \/ RotFinish

SpecRot == InitRot /\ [][NextRot]_vars

Starters == { i \in 1..Len(rot_rows) : rot_rows[i].Role = "Starter" }
Bench == { i \in 1..Len(rot_rows) : rot_rows[i].Role = "Bench/Rotation" }

\* C6: at most 5 players are labelled Starter, and the average minutes of
\* every Starter are at least those of every Bench/Rotation player.
C6_StartersTopFive ==
    rot_pc = "done" =>
        /\ Cardinality(Starters) <= StarterCount
        /\ Starters \cup Bench = 1..Len(rot_rows)
        /\ \A i \in Starters : \A j \in Bench :
              rot_rows[i].row.avg_min >= rot_rows[j].row.avg_min

\* C6 witness: a result with five starters and a bench player who played,
\* for players the response listed with the low-minute ones first.
C6_Witness ==
    /\ rot_pc = "done"
    /\ Cardinality(Starters) = StarterCount
    /\ \E j \in Bench : rot_rows[j].row.avg_min > 0
    /\ \E i \in 1..(Len(per_player) - 1) :
          per_player[i].total_min < per_player[i + 1].total_min

\* The player of row i of the result, in per_player and rot_played.
PlayerPos(i) == CHOOSE k \in 1..Len(per_player) : per_player[k].pid = rot_rows[i].row.pid

\* C18: a row with zero or missing minutes adds nothing to a player's
\* totals: every reported average is the sum over the player's games with
\* minutes > 0 divided by the number of those games (and is 0 for a player
\* without such a game).
C18_AveragesOverPlayedGames ==
    rot_pc = "done" =>
        \A i \in 1..Len(rot_rows) :
            LET row == rot_rows[i].row
                prod == rot_played[PlayerPos(i)]
                gp == row.gp_non_dnp
            IN IF gp = 0
               THEN row.avg_pts = 0 /\ row.avg_reb = 0 /\ row.avg_ast = 0 /\ row.avg_3pm = 0
               ELSE /\ row.avg_pts = Round1(prod.pts, gp)
                    /\ row.avg_reb = Round1(prod.reb, gp)
                    /\ row.avg_ast = Round1(prod.ast, gp)
                    /\ row.avg_3pm = Round1(prod.fg3m, gp)

\* C25: every player labelled Starter recorded minutes > 0 in at least one
\* game of the window (GP (non-DNP) >= 1); a player whose rows all have zero
\* or absent minutes is never a Starter.
C25_StartersPlayed ==
    rot_pc = "done" =>
        \A i \in Starters : rot_rows[i].row.gp_non_dnp >= 1

(***************************************************************************)
(* Specification of get_player_info_smart.                                 *)
(***************************************************************************)
InitRes ==
    /\ res_input \in UserInputs
    /\ candidates = <<>>
    /\ res_issued = <<>>
    /\ res_returned = {}
    /\ res_result = NotFound
    /\ res_pc = "search"
    /\ LogIdle /\ NgIdle /\ AdvIdle /\ RotIdle /\ OddsIdle /\ RunIdle /\ PageIdle

NextRes ==
    \/ \E resp \in SearchResponses : ResQuery(resp)
    \/ ResSearchEnd
    \/ ResReturn

SpecRes == InitRes /\ [][NextRes]_vars

CandidateSet == { candidates[i] : i \in 1..Len(candidates) }
ScoreOf(id) == Score(PlayerDB[id], res_input)

\* C15: the resolver returns not-found exactly when the candidate pool is
\* empty, and otherwise a candidate of the pool whose score is at least the
\* score of every candidate of the pool, without any threshold.
C15_BestCandidateOrNotFound ==
    res_pc = "done" =>
        /\ res_result.found <=> candidates # <<>>
        /\ res_result.found =>
              /\ res_result.id \in CandidateSet
              /\ \A c \in CandidateSet : AtLeast(ScoreOf(res_result.id), ScoreOf(c))

\* C15 witness: a player is returned who is not the first of a pool of two
\* or more, scores strictly more than another candidate of the pool, and
\* whose score is below half the weight of the name similarity.
C15_Witness ==
    /\ res_pc = "done"
    /\ res_result.found
    /\ Len(candidates) >= 2
    /\ res_result.id # candidates[1]
    /\ ~AtLeast(ScoreOf(candidates[1]), ScoreOf(res_result.id))
    /\ 2 * ScoreOf(res_result.id).n < NameWeight * ScoreOf(res_result.id).d

CleanOfInput == CleanInput(res_input)
MultiWord == Len(Words(CleanOfInput)) > 1
SearchOver == res_pc \in {"score", "done"}
IsPrefix(xs, ys) == Len(xs) <= Len(ys) /\ xs = SubSeq(ys, 1, Len(xs))
StoppedAfterClean ==
    /\ res_issued # <<>>
    /\ res_issued[Len(res_issued)] = CleanOfInput
    /\ candidates # <<>>

\* C17 as stated: for a multi-word cleaned input the queries sent are the
\* cleaned string, the reversed string and each word, and the pool is the
\* union of their results, without duplicates.
C17_AllQueriesSent ==
    (SearchOver /\ MultiWord) =>
        /\ res_issued = Queries(CleanOfInput)
        /\ CandidateSet = res_returned
        /\ Cardinality(CandidateSet) = Len(candidates)

\* C17 amended: for a multi-word cleaned input the queries are sent in the
\* order cleaned string, reversed string, each word, those shorter than 3
\* characters being skipped, and the search stops as soon as the query
\* equal to the cleaned string has been sent and the pool is not empty;
\* the pool is the union of the results of the queries sent, without
\* duplicates.
C17_QueriesUntilFound ==
    MultiWord =>
        /\ IsPrefix(res_issued, Searched(Queries(CleanOfInput)))
        /\ CandidateSet = res_returned
        /\ Cardinality(CandidateSet) = Len(candidates)
        /\ res_pc = "search" => ~StoppedAfterClean
        /\ SearchOver =>
              \/ res_issued = Searched(Queries(CleanOfInput))
              \/ StoppedAfterClean

\* C17 witness: the cleaned string and the reversed string found nobody,
\* and the pool holds two players or more from the queries that followed.
C17_Witness ==
    /\ res_pc = "done"
    /\ MultiWord
    /\ Len(res_issued) >= 3
    /\ Len(candidates) >= 2

(***************************************************************************)
(* Specification of get_betting_game_and_odds.                             *)
(***************************************************************************)
InitOdds ==
    /\ odds_resp \in OddsResponses
    /\ odds_requests = <<>>
    /\ odds_result = NoBetting("")
    /\ odds_pc = "call"
    /\ LogIdle /\ NgIdle /\ AdvIdle /\ RotIdle /\ ResIdle /\ RunIdle /\ PageIdle

NextOdds == \E props \in PropsOutcomes : OddsCall(props)

SpecOdds == InitOdds /\ [][NextOdds]_vars

\* The events with the team on one side and a commence time that parses,
\* and those of them that start now or later.
Eligible ==
    { i \in 1..Len(odds_resp.games) :
        EventMatches(odds_resp.games[i], normalize_team_name(TeamName)) }
Future == { i \in Eligible : TimeOf(odds_resp.games, i) >= NowTick }
Distance(i) == Abs(TimeOf(odds_resp.games, i) - NowTick)
SelectedEvent == odds_requests[Len(odds_requests)].game_id
EventSelected == odds_pc = "done" /\ odds_requests # <<>> /\ SelectedEvent # 0

\* C20: an event is selected iff some event is eligible; it is the eligible
\* event with the earliest commence time at or after now, and only when
\* there is none the eligible event nearest to now.
C20_NearestFutureElseNearest ==
    odds_pc = "done" =>
        /\ EventSelected <=> (odds_resp.kind = "ok" /\ Eligible # {})
        /\ EventSelected =>
              /\ SelectedEvent \in Eligible
              /\ odds_result.tipoff_iso = odds_resp.games[SelectedEvent].commence_time
              /\ odds_result.home_team = odds_resp.games[SelectedEvent].home_team
              /\ odds_result.away_team = odds_resp.games[SelectedEvent].away_team
              /\ IF Future # {}
                 THEN /\ SelectedEvent \in Future
                      /\ \A i \in Future :
                            TimeOf(odds_resp.games, SelectedEvent) <= TimeOf(odds_resp.games, i)
                 ELSE \A i \in Eligible : Distance(SelectedEvent) <= Distance(i)

\* C20 witness: the selected future event is further from now than an
\* eligible past event listed before it.
C20_Witness ==
    /\ EventSelected
    /\ SelectedEvent \in Future
    /\ \E i \in Eligible \ Future : i < SelectedEvent /\ Distance(i) < Distance(SelectedEvent)

(***************************************************************************)
(* Specification of run_analysis.                                          *)
(***************************************************************************)
InitRun ==
    /\ run_pc = "resolve"
    /\ run_calls = <<>>
    /\ run_http = <<>>
    /\ run_local = InitialLocals
    /\ analysis_data = PreviousData
    /\ messages = PreviousMessages
    /\ run_teams = <<>>
    /\ LogIdle /\ NgIdle /\ AdvIdle /\ RotIdle /\ ResIdle /\ OddsIdle /\ PageIdle

NextRun ==
    \/ \E out \in ResolverOutcomes : RunResolve(out)
    \/ \E resp \in RunNgResponses : RunNextGame(resp)
    \/ \E resp \in RunOddsResponses : \E props \in RunPropsOutcomes : RunOdds(resp, props)
    \/ \E resp \in TeamResponses : RunTeamLookup(resp)
    \/ \E home_out \in InjuryOutcomes : \E opp_out \in InjuryOutcomes : RunInjuries(home_out, opp_out)
    \/ \E out \in ScheduleOutcomes : RunSchedule(out)
    \/ \E out \in MetricsOutcomes : RunMetrics(out)
    \/ \E outs \in [1..Len(run_local.past_games) -> BoxOutcomes] : RunBoxScores(outs)
    \/ \E sched_out \in ScheduleOutcomes : \E out \in MetricsOutcomes : RunOpponent(sched_out, out)
    \/ \E home_out \in RotationOutcomes : \E opp_out \in RotationOutcomes : RunRotations(home_out, opp_out)
    \/ \E ok \in BOOLEAN : RunLLM(ok)

SpecRun == InitRun /\ [][NextRun]_vars

(***************************************************************************)
(* Claims about run_analysis.                                              *)
(***************************************************************************)
\* Every call recorded is the resolver's, every request sent is its search.
OnlyResolverActed ==
    /\ \A i \in 1..Len(run_calls) : run_calls[i].fn = "get_player_info_smart"
    /\ \A i \in 1..Len(run_http) : run_http[i].site = "get_player_info_smart"

\* C12: when the resolver returns no player the run halts: it makes no
\* schedule, odds, injuries, stats, metrics, rotation or narrative call
\* afterwards, and the stored result and messages stay what they were.
C12_NotFoundHalts ==
    (run_pc # "resolve" /\ ~run_local.player_obj) =>
        /\ run_pc = "stopped"
        /\ OnlyResolverActed
        /\ analysis_data = PreviousData
        /\ messages = PreviousMessages

C12_Witness ==
    /\ run_pc = "stopped"
    /\ Len(run_calls) = 1
    /\ run_http[1].outcome = "empty"

\* C27: run_analysis changes analysis_data and messages only on a fully
\* successful run, where analysis_data becomes the new result and messages
\* exactly one assistant message; while it runs, when it stops on not-found
\* and when an exception ends it, both are what they were before the run.
C27_SessionStateOnlyOnSuccess ==
    IF run_pc = "done"
    THEN /\ analysis_data = ResultOf(run_local)
         /\ messages = <<"analysis">>
         /\ Len(messages) = 1
         /\ run_calls[Len(run_calls)].fn = "llm.invoke"
    ELSE /\ analysis_data = PreviousData
         /\ messages = PreviousMessages

\* C27 witness: a run that an exception ended after the resolver had found
\* the player and requests had brought data.
C27_Witness ==
    /\ run_pc = "error"
    /\ run_local.player_obj
    /\ run_calls[Len(run_calls)].fn = "llm.invoke"
    /\ \E i \in 1..Len(run_http) : run_http[i].outcome = "data"

\* The odds step is over, and so is the team lookup.
AfterOdds == run_pc \notin {"idle", "resolve", "stopped", "next_game", "odds"}
AfterLookup == AfterOdds /\ run_pc # "team_lookup"

\* The odds provider yielded an event: both sides are named.
OddsEvent ==
    /\ Truthy(GetNone(run_local.betting.home_team))
    /\ Truthy(GetNone(run_local.betting.away_team))

\* The names of the odds provider that are the player's team: those whose
\* normalized form contains the team's normalized name.
TeamSides ==
    { name \in {OddsLakers, OddsCeltics, OddsClippers} :
        Contains(normalize_team_name(TeamName), normalize_team_name(name)) }

\* The side `name` of the event is the player's team.
TeamSide(name) == name \in TeamSides

\* C21: when the stats provider yields no next game and the odds provider
\* an event, the opponent of the matchup is the side of the event that is
\* not the player's team, and the opponent id, abbreviation and name are
\* those of a served team whose normalized full name scored the highest
\* similarity to that side's; when the stats provider yields a next game, matchup and
\* opponent are that game's, whatever the odds event says, and no team is
\* looked up.
C21_OddsFallbackOpponent ==
    /\ AfterOdds =>
          IF run_local.bdl.found
          THEN /\ run_local.matchup = [src |-> "bdl", loc |-> run_local.bdl.loc,
                                        opp |-> run_local.bdl.opp]
               /\ run_local.opp_id = run_local.bdl.opp
               /\ run_local.opp_name_bdl = BdlTeam(run_local.bdl.opp).full_name
               /\ run_local.opp_abbr = BdlTeam(run_local.bdl.opp).abbreviation
               /\ run_teams = <<>>
          ELSE IF OddsEvent
          THEN LET home == run_local.betting.home_team
                   away == run_local.betting.away_team
                   opp == run_local.matchup.opp
               IN /\ run_local.matchup.src = "odds"
                  /\ \/ opp = away /\ TeamSide(home)
                     \/ opp = home /\ TeamSide(away)
                  /\ ~TeamSide(opp)
          ELSE run_local.matchup = UnknownMatchup
    /\ (AfterLookup /\ run_teams # <<>>) =>
          \E i \in 1..Len(run_teams) :
              /\ \A j \in 1..Len(run_teams) :
                    ~MoreThan(run_teams[j].score, run_teams[i].score)
              /\ run_local.opp_id = run_teams[i].team.id
              /\ run_local.opp_abbr = run_teams[i].team.abbreviation
              /\ run_local.opp_name_bdl = run_teams[i].team.full_name

\* C21 witness: a finished run without a next game from the stats provider,
\* whose opponent is the away side of the odds event and the second team of
\* the served list; the first team of the list is similar too, but less.
C21_Witness ==
    /\ run_pc = "done"
    /\ ~run_local.bdl.found
    /\ run_local.matchup.src = "odds"
    /\ run_local.matchup.opp = run_local.betting.away_team
    /\ Len(run_teams) > 1
    /\ run_local.opp_id = run_teams[2].team.id
    /\ analysis_data.opp_name = run_local.matchup.opp
    /\ MoreThan(run_teams[1].score, Zero)
    /\ MoreThan(run_teams[2].score, run_teams[1].score)
    /\ MoreThan(run_teams[1].score, run_teams[3].score)

\* C21 witness of the other case: the stats provider's game is against one
\* team, the odds event against another, and the game's opponent is kept.
C21_WitnessKept ==
    /\ run_pc = "done"
    /\ run_local.bdl.found
    /\ OddsEvent
    /\ BdlTeam(run_local.opp_id).full_name
          \notin {run_local.betting.home_team, run_local.betting.away_team}

\* The outcomes of the requests `site` sent for `arg` to endpoint `ep`.
Outcomes(site, ep, arg) ==
    { run_http[i].outcome : i \in { j \in 1..Len(run_http) :
                                      /\ run_http[j].site = site
                                      /\ run_http[j].ep = ep
                                      /\ run_http[j].arg = arg } }

\* Some such request failed or brought nothing.
Degraded(site, ep, arg) == Outcomes(site, ep, arg) \cap {"failed", "empty"} # {}

OddsErrorTexts ==
    {"Error fetching games from Betting API", "Error fetching odds",
     "No betting lines available.", "No active betting lines found"}

\* The rotation fields of a team hold the empty rotation where its requests
\* failed or brought nothing.
RotationPlaceholder(team, rows, games_used) ==
    /\ Degraded("get_team_rotation", "/games", GamesParams(team, "before"))
          => rows = "[]" /\ games_used = 0
    /\ Degraded("get_team_rotation", "/stats", StatsParams(PastGames(team), 0)) => rows = "[]"

\* The metrics of a team report no game where the schedule or the box-score
\* request failed or brought nothing.
MetricsPlaceholder(team, adv) ==
    (\/ Degraded("run_analysis", "/games", GamesParams(team, "before"))
     \/ Degraded("compute_team_advanced_stats", "/stats", StatsParams(PastGames(team), 1)))
        => adv.games_used = 0

InjuryPlaceholder(team, text) ==
    /\ "failed" \in Outcomes("get_team_injuries", "/player_injuries", team)
          => text = "Error fetching injuries"
    /\ "empty" \in Outcomes("get_team_injuries", "/player_injuries", team)
          => text = "No active injuries."

\* The stored result holds the placeholder of every field whose provider
\* call failed or brought nothing.
PlaceholdersHeld(r) ==
    /\ (/\ Degraded("get_next_game_bdl", "/games", GamesParams("team", "ahead"))
        /\ Degraded("get_betting_game_and_odds", "/odds", "0"))
          => r.matchup = UnknownMatchup /\ r.date = UnknownDate
    /\ Degraded("get_betting_game_and_odds", "/odds", "0")
          => r.odds \in OddsErrorTexts /\ r.tipoff_iso = Null
    /\ InjuryPlaceholder("team", r.inj_home)
    /\ \A opp \in Teams \ {"team"} : InjuryPlaceholder(opp, r.inj_opp)
    /\ Degraded("run_analysis", "/games", GamesParams("team", "before")) => r.log = <<>>
    /\ \A i \in 1..Len(r.log) :
          Degraded("get_player_stats_for_games", "/stats", StatsParams(<<PastGames("team")[i]>>, 0))
             => r.log[i] = DNPMarker
    /\ MetricsPlaceholder("team", r.adv_home)
    /\ \A opp \in Teams \ {"team"} :
          Outcomes("run_analysis", "/games", GamesParams(opp, "before")) # {}
             => MetricsPlaceholder(opp, r.adv_opp)
    /\ RotationPlaceholder("team", r.rotation_rows, r.rotation_games_used)
    /\ \A opp \in Teams \ {"team"} :
          RotationPlaceholder(opp, r.opp_rotation_rows, r.opp_rotation_games_used)

\* C11: once the resolver has returned a player, failures and empty
\* responses of the schedule, injuries, stats and odds requests never abort
\* the run (it aborts only on a response carrying data or in the narrative
\* call), a step is always enabled until the run ends, and the result
\* stored holds the placeholder of each affected field.
C11_DegradedButComplete ==
    /\ run_pc = "error" =>
          \/ run_calls[Len(run_calls)].fn = "llm.invoke"
          \/ run_http[Len(run_http)].outcome = "data"
    /\ run_pc \notin {"stopped", "error", "done"} => ENABLED NextRun
    /\ run_pc = "done" =>
          /\ analysis_data # PreviousData
          /\ PlaceholdersHeld(analysis_data)

\* Every provider call failed or brought nothing, and the result is stored.
C11_Witness ==
    /\ run_pc = "done"
    /\ \A i \in 2..Len(run_http) : run_http[i].outcome # "data"
    /\ "failed" \in { run_http[i].outcome : i \in 1..Len(run_http) }
    /\ analysis_data.matchup = UnknownMatchup
    /\ analysis_data.inj_home = "Error fetching injuries"

\* The five stages of the pipeline, in the order the claim gives them, and
\* the stage a component belongs to (0: none of the five).
StageOf(fn) ==
    CASE fn = "get_player_info_smart" -> 1
      [] fn \in {"get_next_game_bdl", "get_betting_game_and_odds", "get_bdl_team_by_name"} -> 2
      [] fn = "get_player_stats_for_games" -> 3
      [] fn = "compute_team_advanced_stats" -> 4
      [] fn = "get_team_rotation" -> 5
      [] OTHER -> 0

StageCalls == { i \in 1..Len(run_calls) : StageOf(run_calls[i].fn) > 0 }

\* The component calls of run_analysis in the order of its text.
CodeOrder ==
    <<[fn |-> "get_player_info_smart", side |-> "-"],
      [fn |-> "get_next_game_bdl", side |-> "team"],
      [fn |-> "get_betting_game_and_odds", side |-> "team"],
      [fn |-> "get_bdl_team_by_name", side |-> "opp"],
      [fn |-> "get_team_injuries", side |-> "team"],
      [fn |-> "get_team_injuries", side |-> "opp"],
      [fn |-> "get_team_schedule_before_today", side |-> "team"],
      [fn |-> "compute_team_advanced_stats", side |-> "team"],
      [fn |-> "get_player_stats_for_games", side |-> "-"],
      [fn |-> "get_team_schedule_before_today", side |-> "opp"],
      [fn |-> "compute_team_advanced_stats", side |-> "opp"],
      [fn |-> "compute_team_form", side |-> "team"],
      [fn |-> "get_team_rotation", side |-> "team"],
      [fn |-> "get_team_rotation", side |-> "opp"],
      [fn |-> "llm.invoke", side |-> "-"]>>

\* The side a recorded call was made for.
SideOf(c) ==
    IF c.arg \in {"input", "player", "prompt"} THEN "-"
    ELSE IF c.arg = "team" THEN "team" ELSE "opp"

\* The place of a recorded call in CodeOrder, 0 if it has none.
PlaceOf(c) ==
    LET entry == [fn |-> c.fn, side |-> SideOf(c)] IN
    IF \E k \in 1..Len(CodeOrder) : CodeOrder[k] = entry
    THEN CHOOSE k \in 1..Len(CodeOrder) : CodeOrder[k] = entry
    ELSE 0

\* The places of the calls made so far.
Places == [i \in 1..Len(run_calls) |-> PlaceOf(run_calls[i])]

\* The calls a run that stored a result has made whatever the opponent.
Unconditional == {1, 2, 3, 5, 7, 8, 9, 12, 13, 15}

SameRequest(a, b) == a.ep = b.ep /\ a.arg = b.arg

ProvidersDisagree ==
    /\ run_local.bdl.found
    /\ analysis_data.tipoff_iso # Null
    /\ FromIso(analysis_data.tipoff_iso).ok
    /\ DateOf(FromIso(analysis_data.tipoff_iso).v) # run_local.bdl.date

\* C19: when the stats provider has established the next game and the odds
\* event of the team has another commence date, the date stored for display
\* is the date of the odds event's commence time.
C19_OddsDateShown ==
    (run_pc = "done" /\ ProvidersDisagree) =>
        analysis_data.date = ShownDate(DateOf(FromIso(analysis_data.tipoff_iso).v))

(***************************************************************************)
(* Further claims about get_next_game_bdl.                                 *)
(***************************************************************************)
\* The games of the response that are not Final.
NonFinal == { i \in 1..Len(ng_resp.data) : ng_resp.data[i].status # "Final" }

\* C22: get_next_game_bdl reports a game exactly when the response holds a
\* game that is not Final; the game reported is not Final and no game that
\* is not Final has an earlier date; the opponent is the visitor of that
\* record when the team is its home team and its home team otherwise, and
\* is never the team itself.
C22_EarliestOpenGameAndItsOpponent ==
    ng_pc = "done" =>
        /\ ng_result.found <=> NonFinal # {}
        /\ ng_result.found =>
              /\ ng_result.game_id \in NonFinal
              /\ \A i \in NonFinal : GameOfResult.date <= ng_resp.data[i].date
              /\ ng_result.date = GameOfResult.date
              /\ ng_result.opp = IF GameOfResult.home = "team"
                                 THEN GameOfResult.visitor ELSE GameOfResult.home
              /\ ng_result.opp # "team"

\* Two open games listed latest first, the team visiting in the earlier one.
C22_Witness ==
    /\ ng_pc = "done"
    /\ ng_result.found
    /\ ng_result.game_id > 1
    /\ ng_resp.data[1].status # "Final"
    /\ ng_resp.data[1].date > GameOfResult.date
    /\ GameOfResult.visitor = "team"
    /\ ng_result.loc = "@"

(***************************************************************************)
(* Further claims about compute_team_advanced_stats.                       *)
(***************************************************************************)
\* Two fractions with positive denominators are the same number.
SameNumber(x, y) == x.n * y.d = y.n * x.d

\* The requested games that have a record.
Recorded == { g \in DOMAIN per_game : Requested(g) }

\* One hundred times FGA - OREB + TOV + 0.44 * FTA of a side in a game.
Possessions100(g, side) ==
    LET b == per_game[g][side]
    IN 100 * b.fga - 100 * b.oreb + 100 * b.turnover + 44 * b.fta

\* The points and the possessions of a side summed over the games of S.
RECURSIVE SumPoints(_, _)
SumPoints(S, side) ==
    IF S = {} THEN 0
    ELSE LET g == CHOOSE x \in S : TRUE
         IN per_game[g][side].pts + SumPoints(S \ {g}, side)

RECURSIVE SumPossessions100(_, _)
SumPossessions100(S, side) ==
    IF S = {} THEN 0
    ELSE LET g == CHOOSE x \in S : TRUE
         IN Possessions100(g, side) + SumPossessions100(S \ {g}, side)

\* The sums the claim names, over the recorded games.
PointsFor == SumPoints(Recorded, "team")
PointsAgainst == SumPoints(Recorded, "opp")
TeamPossessions100 == SumPossessions100(Recorded, "team")
OppPossessions100 == SumPossessions100(Recorded, "opp")

\* C23: when the function returns with rows received and team possessions
\* above zero, off_rtg is 100 * points for / team possessions, def_rtg is
\* 100 * points against / the team's own possessions, net_rtg is their
\* difference, and pace is (team + opponent possessions) / (2 * games_used),
\* possessions being FGA - OREB + TOV + 0.44 * FTA of a side, game by game.
C23_RatingsAndPaceFormulas ==
    (AdvReturned /\ Recorded # {} /\ TeamPossessions100 > 0) =>
        /\ adv_result.games_used = Cardinality(Recorded)
        /\ SameNumber(adv_result.off_rtg, Frac(100 * 100 * PointsFor, TeamPossessions100))
        /\ SameNumber(adv_result.def_rtg, Frac(100 * 100 * PointsAgainst, TeamPossessions100))
        /\ SameNumber(adv_result.net_rtg,
                      Frac(100 * 100 * PointsFor - 100 * 100 * PointsAgainst,
                           TeamPossessions100))
        /\ SameNumber(adv_result.pace,
                      Frac(TeamPossessions100 + OppPossessions100,
                           100 * 2 * adv_result.games_used))

\* Two games used, free throws attempted, and the two sides' possessions
\* differ, so that the rating over the opponent's possessions would differ.
C23_Witness ==
    /\ AdvReturned
    /\ Cardinality(Recorded) = 2
    /\ TeamPossessions100 > 0
    /\ TeamPossessions100 # OppPossessions100
    /\ PointsAgainst > 0
    /\ \E g \in Recorded : per_game[g]["team"].fta > 0

\* The requested games of which all_stats holds a row.
SeenRequested == { g \in adv_seen : Requested(g) }

\* C24: games_used never exceeds the number of requested games; when it is
\* not zero it is the number of requested games of which at least one row
\* was received; and a row of a game that was not requested gets no record,
\* so that it adds to no total.
C24_GamesUsedWithinRequested ==
    AdvReturned =>
        /\ adv_result.games_used <= Len(GameIdsOf(adv_games))
        /\ adv_result.games_used > 0 => adv_result.games_used = Cardinality(SeenRequested)
        /\ DOMAIN per_game \subseteq SeenRequested

\* Fewer games used than games passed in, and a row of a game not requested.
C24_Witness ==
    /\ AdvReturned
    /\ adv_result.games_used > 0
    /\ adv_result.games_used < Len(adv_games)
    /\ adv_seen \ SeenRequested # {}


(***************************************************************************)
(* Specification of the page loop of compute_team_advanced_stats: the      *)
(* provider holds any number of rows up to MaxServed, and any request may  *)
(* be answered, refused or fail.                                           *)
(***************************************************************************)
InitPage ==
    /\ pg_total \in 0..MaxServed
    /\ pg_page = 1
    /\ all_stats = <<>>
    /\ pg_log = <<>>
    /\ pg_pc = "loop"
    /\ LogIdle /\ NgIdle /\ AdvIdle /\ RotIdle /\ ResIdle /\ OddsIdle /\ RunIdle

NextPage ==
    \/ PageServed
    \/ PageStatus
    \/ PageException

SpecPage == InitPage /\ [][NextPage]_vars

\* Every request returns or raises within REQUEST_TIMEOUT and the loop
\* goes on to its next statement: an iteration that can be made is made.
FairSpecPage == SpecPage /\ WF_vars(NextPage)

\* Request i of the loop was answered with a full page.
FullPage(i) == pg_log[i].kind = "ok" /\ pg_log[i].size = PerPage

\* The loop ended on an empty or short page of a successful response.
CleanStop ==
    /\ pg_pc = "done"
    /\ pg_log[Len(pg_log)].kind = "ok"

\* Pages are requested in the order 1, 2, 3, ...; every request before the
\* last was answered with a full page, and so was the last while the loop
\* runs; the loop is over once a request was not; all_stats holds the rows
\* of the pages received, and after a clean stop every row of the provider
\* once, in the provider's order.
PageLoopSafe ==
    /\ \A i \in 1..Len(pg_log) : pg_log[i].page = i
    /\ \A i \in 1..(Len(pg_log) - 1) : FullPage(i)
    /\ pg_pc = "loop" => /\ \A i \in 1..Len(pg_log) : FullPage(i)
                         /\ pg_page = Len(pg_log) + 1
    /\ pg_pc = "done" => pg_log # <<>> /\ ~FullPage(Len(pg_log))
    /\ CleanStop => all_stats = [i \in 1..pg_total |-> i]
    /\ \A i, j \in 1..Len(all_stats) : all_stats[i] = all_stats[j] => i = j

\* C26: the paginated fetch terminates and collects every row exactly once:
\* pages are requested in the order 1, 2, 3, ... with no page requested
\* twice, the loop stops at the first non-success status, empty page or
\* page with fewer than 100 rows, and on a clean stop all_stats holds every
\* row of the provider once.
C26_PagedFetchTerminatesComplete ==
    /\ []PageLoopSafe
    /\ <>(pg_pc = "done")

\* C26 witness: two full pages and an empty third one, all rows collected.
C26_Witness ==
    /\ CleanStop
    /\ Len(pg_log) = 3
    /\ pg_log[3].size = 0
    /\ Len(all_stats) = 2 * PerPage

====
